---- MODULE Spec2Model ----
(***************************************************************************)
(* Model of the ArtNet transport of artlux                                 *)
(* (src/services/mockSocketService.ts): the bridge connection life cycle   *)
(* (connectToBridge / disconnectBridge / socket handlers / reconnect       *)
(* timer), the two send paths (sendDmxData, sendArtNetFrame), the universe *)
(* multiplexer and the ArtNet packet encoder.                              *)
(*                                                                         *)
(* The file holds two revisions of the module.  They share the life cycle  *)
(* code; they differ in the reconnect callback (guarded by `if (activeUrl)`*)
(* in the second), in the encoder (buildArtNetPacket / fillPacketBuffer)   *)
(* and in the send entry point.  `version` selects the reconnect callback. *)
(***************************************************************************)
EXTENDS Integers, Sequences, FiniteSets, TLC

\* ---------------------------------------------------------------- bounds
MaxSockets == 2          \* WebSocket objects alive at once (current + detached ones still closing)
MaxTicks == 3            \* number of clock advances in one behaviour
InitialLeds == 2         \* LEDs of App's initial fixture

\* ------------------------------------------------------ program constants
ReconnectDelay == 3000
MinSendInterval == 22
BackpressureLimit == 64 * 1024
UniverseSize == 512
ArtNetHeaderLen == 18

\* ------------------------------------------------------------ value sets
NoSocket == 0
NoTimer == 0
NoUrl == "null"
GoodUrls == {"ws://a", "ws://b"}
BadUrls == {"w"}                         \* new WebSocket(url) throws SyntaxError
Urls == GoodUrls \cup BadUrls
WrapFrames == 254                         \* frames already sent in WrapInit
BridgeUrl == "ws://a"                     \* the bridge of the send specifications
Deltas == {1, 21, ReconnectDelay}          \* clock advances, in ms
SendDeltas == {21, 22}                    \* clock advances of the send specifications
Full == 4                                 \* brightness 1.0 in quarters
Half == 2                                 \* brightness 0.5 in quarters
AppListener == 1                          \* the closure App's connection effect registers
InspectorListener == 2                    \* the closure InspectorPanel registers
Listeners == {AppListener, InspectorListener}

VARIABLES
    version,          \* 1 or 2: which revision's reconnect callback runs
    socket,           \* id of the current WebSocket, NoSocket for null
    activeUrl,
    lastSendTime,
    sequence,
    reconnectTimer,   \* handle of the pending timeout, NoTimer for null
    isConnected,
    socks,            \* browser: WebSocket objects not yet closed, id -> record
    timers,           \* browser: pending timeouts, handle -> due time
    now,              \* performance.now(), ms
    ticks,            \* clock advances so far
    reusablePacket,   \* the packet buffer fillPacketBuffer writes into
    lastCall,         \* history: "connect" / "disconnect", the last call of connectToBridge /
                      \* disconnectBridge() by the application, "none" before the first
    ev,               \* history: kind of the last step: "close" (close event of the current
                      \* socket), "timer" (reconnect timeout), "send" (send request),
                      \* "sample" (Stage's tick with a ready source or none), "unready"
                      \* (Stage's tick with a source that is not ready), "other"
    req,              \* history: the inputs of the last send request
    wire,             \* history: the envelopes the last send request passed to socket.send
    tx,               \* history: [time, seq] of the last two transmitted frames
    dropped,          \* history: some frame was dropped for backpressure
    listeners,        \* the Set of registered status listeners (ids of closures)
    heard,            \* listener -> the status its last invocation delivered
    retired,          \* history: listeners whose unsubscribe function has been called
    called,           \* history: the listeners the last step invoked
    keepFrames,       \* whether the history `frames` is kept in this behaviour
    frames,           \* history: [data, thrown] of the last two transmitted frames: the
                      \* universe buffers the packets were built from and the positions
                      \* of the packets whose socket.send threw
    mounted,          \* App: "no" before the first commit, "yes", "gone" after unmount
    fixtures,         \* App state `fixtures` of the last commit
    isBridgeConnected,\* App state `isBridgeConnected` of the last commit
    pendingFixtures,  \* React: <<value>> of the last setFixtures not yet rendered, or <<>>
    effectsDue,       \* React: the last commit's passive effects have not run yet
    loop,             \* App: <<closure>> of the armed main-loop callback, or <<>>
    fixturesRef,      \* Stage: fixturesRef.current
    layoutDeps,       \* Stage: fixtureLayoutSignature of the last run of the mapping effect
    sampleMap,        \* GPUMapper: the sample coordinates in the map texture
    totalLeds,        \* GPUMapper: totalLeds
    srcFrame,         \* Stage: the source frame last drawn into the canvas
    remapped,         \* history: the last effects flush (or the mount) called updateMapping
    brightness,       \* GPUMapper: brightness, in quarters (Full is 1.0)
    texel,            \* history: the source colour <<r, g, b>> converted last
    rgbw,             \* history: the RGBW value the last conversion gave
    via,              \* history: "js" (rgbToRgbw) or "gpu" (fragment shader), "none" at first
    channel,          \* relay: the WebSocket messages sent to it and not yet handled
    udpOpen,          \* relay: udpSocket has not been closed by its error handler
    datagrams,        \* history: the UDP datagrams the relay's handler sent for `handled`
    handled           \* history: <<message>> the relay's handler ran for last, or <<>>

vars == <<version, socket, activeUrl, lastSendTime, sequence, reconnectTimer,
          isConnected, socks, timers, now, ticks, reusablePacket, lastCall,
          ev, req, wire, tx, dropped, listeners, heard, retired, called,
          keepFrames, frames, mounted, fixtures, isBridgeConnected, pendingFixtures,
          effectsDue, loop, fixturesRef, layoutDeps, sampleMap, totalLeds, srcFrame,
          remapped, brightness, texel, rgbw, via, channel, udpOpen, datagrams, handled>>

\* The state of the React application (App, Stage and its GPUMapper).
ui == <<mounted, fixtures, isBridgeConnected, pendingFixtures, effectsDue, loop,
        fixturesRef, layoutDeps, sampleMap, totalLeds, srcFrame, remapped>>

\* The colour conversion and the relay process (artlux-bridge.cjs).
shader == <<brightness, texel, rgbw, via>>
relay == <<channel, udpOpen, datagrams, handled>>

build == <<version, keepFrames, shader, relay>>
config == <<build, ui>>

life == <<socket, activeUrl, reconnectTimer, isConnected, socks, timers, listeners, heard,
          retired>>
sendState == <<lastSendTime, sequence, reusablePacket, req, wire, tx, dropped, frames>>

\* The life-cycle part of the module state, as one value the handlers transform.
Cur ==
    [socket |-> socket, activeUrl |-> activeUrl, reconnectTimer |-> reconnectTimer,
     isConnected |-> isConnected, socks |-> socks, timers |-> timers,
     listeners |-> listeners, heard |-> heard, retired |-> retired, called |-> {}]

Commit(s) ==
    /\ socket' = s.socket
    /\ activeUrl' = s.activeUrl
    /\ reconnectTimer' = s.reconnectTimer
    /\ isConnected' = s.isConnected
    /\ socks' = s.socks
    /\ timers' = s.timers
    /\ listeners' = s.listeners
    /\ heard' = s.heard
    /\ retired' = s.retired
    /\ called' = s.called

Without(f, k) == [x \in (DOMAIN f) \ {k} |-> f[x]]
With(f, k, v) == [x \in (DOMAIN f) \cup {k} |-> IF x = k THEN v ELSE f[x]]
FreshId(f) == CHOOSE i \in 1..(Cardinality(DOMAIN f) + 1) : i \notin DOMAIN f

\* new WebSocket(url) throws for a URL it cannot parse (and for null).
CtorThrows(url) == url \notin GoodUrls

\* notifyListeners(status): sets the flag, then calls every registered listener.
NotifyListeners(s, status) ==
    [s EXCEPT !.isConnected = status,
              !.heard = [l \in s.listeners |-> status],
              !.called = @ \cup s.listeners]

\* Mutant: the immediate callback reports false whatever the flag is.
AddStatusListener_reportsFalse(s, l) ==
    [s EXCEPT !.listeners = @ \cup {l},
              !.heard = With(@, l, FALSE),
              !.called = @ \cup {l}]

\* addStatusListener(listener): registers, then calls it with the current flag.
AddStatusListener(s, l) ==
    [s EXCEPT !.listeners = @ \cup {l},
              !.heard = With(@, l, s.isConnected),
              !.called = @ \cup {l}]

\* The function addStatusListener returns: listeners.delete(listener).
Unsubscribe(s, l) ==
    [s EXCEPT !.listeners = @ \ {l},
              !.heard = [x \in (DOMAIN @) \ {l} |-> @[x]],
              !.retired = @ \cup {l}]

\* clearTimeout(h): unknown or fired handles are ignored.
ClearTimeout(s, h) == [s EXCEPT !.timers = IF h \in DOMAIN @ THEN Without(@, h) ELSE @]

\* s.close(): CONNECTING and OPEN go to CLOSING; the close event comes later.
SocketCloseCall(sk) ==
    [sk EXCEPT !.readyState = IF @ \in {"CONNECTING", "OPEN"} THEN "CLOSING" ELSE @]

\* Mutant: forgets clearTimeout, only drops the handle.
DisconnectBridge_leaksTimer(s, fully) ==
    LET s1 == [s EXCEPT !.reconnectTimer = NoTimer]
        s2 == IF s1.socket # NoSocket
              THEN [s1 EXCEPT !.socket = NoSocket,
                              !.socks[s1.socket] = [SocketCloseCall(@) EXCEPT !.onclose = FALSE]]
              ELSE s1
        s3 == NotifyListeners(s2, FALSE)
    IN  IF fully THEN [s3 EXCEPT !.activeUrl = NoUrl] ELSE s3

\* Mutant: ignores `fully`, the retry intent survives.
DisconnectBridge_keepsIntent(s, fully) ==
    LET s1 == IF s.reconnectTimer # NoTimer
              THEN [ClearTimeout(s, s.reconnectTimer) EXCEPT !.reconnectTimer = NoTimer]
              ELSE s
        s2 == IF s1.socket # NoSocket
              THEN [s1 EXCEPT !.socket = NoSocket,
                              !.socks[s1.socket] = [SocketCloseCall(@) EXCEPT !.onclose = FALSE]]
              ELSE s1
    IN  NotifyListeners(s2, FALSE)

DisconnectBridge(s, fully) ==
    LET s1 == IF s.reconnectTimer # NoTimer
              THEN [ClearTimeout(s, s.reconnectTimer) EXCEPT !.reconnectTimer = NoTimer]
              ELSE s
        s2 == IF s1.socket # NoSocket
              THEN [s1 EXCEPT !.socket = NoSocket,
                              !.socks[s1.socket] = [SocketCloseCall(@) EXCEPT !.onclose = FALSE]]
              ELSE s1
        s3 == NotifyListeners(s2, FALSE)
    IN  IF fully THEN [s3 EXCEPT !.activeUrl = NoUrl] ELSE s3

\* Mutant: the pending reconnect survives the call.
ConnectToBridge_keepsTimer(s, url) ==
    IF /\ s.socket # NoSocket
       /\ s.activeUrl = url
       /\ s.socks[s.socket].readyState \in {"OPEN", "CONNECTING"}
    THEN s
    ELSE LET d == [DisconnectBridge(s, FALSE) EXCEPT !.reconnectTimer = s.reconnectTimer,
                                                     !.timers = s.timers]
             id == FreshId(d.socks)
         IN  IF CtorThrows(url)
             THEN NotifyListeners([d EXCEPT !.socket = NoSocket], FALSE)
             ELSE [d EXCEPT !.socket = id,
                            !.socks = With(@, id, [readyState |-> "CONNECTING", onclose |-> TRUE,
                                                   url |-> url, bufferedAmount |-> 0]),
                            !.activeUrl = url]

\* Mutant: returns early for the active URL whatever the readyState.
ConnectToBridge_anyState(s, url) ==
    IF s.socket # NoSocket /\ s.activeUrl = url
    THEN s
    ELSE LET d == DisconnectBridge(s, FALSE)
             id == FreshId(d.socks)
         IN  IF CtorThrows(url)
             THEN NotifyListeners([d EXCEPT !.socket = NoSocket], FALSE)
             ELSE [d EXCEPT !.socket = id,
                            !.socks = With(@, id, [readyState |-> "CONNECTING", onclose |-> TRUE,
                                                   url |-> url, bufferedAmount |-> 0]),
                            !.activeUrl = url]

ConnectToBridge(s, url) ==
    IF /\ s.socket # NoSocket
       /\ s.activeUrl = url
       /\ s.socks[s.socket].readyState \in {"OPEN", "CONNECTING"}
    THEN s
    ELSE LET d == DisconnectBridge(s, FALSE)
             id == FreshId(d.socks)
         IN  IF CtorThrows(url)
             THEN NotifyListeners([d EXCEPT !.socket = NoSocket], FALSE)
             ELSE [d EXCEPT !.socket = id,
                            !.socks = With(@, id, [readyState |-> "CONNECTING", onclose |-> TRUE,
                                                   url |-> url, bufferedAmount |-> 0]),
                            !.activeUrl = url]

\* socket.onopen
OnOpen(s) ==
    LET s1 == NotifyListeners(s, TRUE)
    IN  IF s1.reconnectTimer # NoTimer
        THEN [ClearTimeout(s1, s1.reconnectTimer) EXCEPT !.reconnectTimer = NoTimer]
        ELSE s1

\* Mutant: the close event does not report the loss.
OnClose_silent(s, t) ==
    LET s1 == [s EXCEPT !.socket = NoSocket]
        h == FreshId(s1.timers)
    IN  IF s1.activeUrl # NoUrl /\ s1.reconnectTimer = NoTimer
        THEN [s1 EXCEPT !.reconnectTimer = h, !.timers = With(@, h, t + ReconnectDelay)]
        ELSE s1

\* socket.onclose
OnClose(s, t) ==
    LET s1 == [NotifyListeners(s, FALSE) EXCEPT !.socket = NoSocket]
        h == FreshId(s1.timers)
    IN  IF s1.activeUrl # NoUrl /\ s1.reconnectTimer = NoTimer
        THEN [s1 EXCEPT !.reconnectTimer = h, !.timers = With(@, h, t + ReconnectDelay)]
        ELSE s1

\* Mutant: the timeout only drops the handle.
ReconnectCallback_noConnect(s, v) == [s EXCEPT !.reconnectTimer = NoTimer]

\* The setTimeout callback of onclose.
ReconnectCallback(s, v) ==
    LET s1 == [s EXCEPT !.reconnectTimer = NoTimer]
    IN  IF v = 2 /\ s1.activeUrl = NoUrl THEN s1 ELSE ConnectToBridge(s1, s1.activeUrl)

\* ------------------------------------------------------------- encoder
ARTNET_HEADER == <<65, 114, 116, 45, 78, 101, 116, 0, 0, 80, 0, 14>>

\* n & 0xFF and n >> 8 on 32-bit integers.
And255(n) == n % 256
Shr8(n) == n \div 256

\* buildArtNetPacket with `sequence` = seq; TLA+ index i is JavaScript index i - 1.
BuildArtNetPacket(seq, universe, dmxData) ==
    LET lenVal == Len(dmxData)
    IN  [i \in 1..(ArtNetHeaderLen + lenVal) |->
            IF i <= 12 THEN ARTNET_HEADER[i]
            ELSE IF i = 13 THEN seq
            ELSE IF i = 14 THEN 0
            ELSE IF i = 15 THEN And255(universe)
            ELSE IF i = 16 THEN And255(Shr8(universe))
            ELSE IF i = 17 THEN And255(Shr8(lenVal))
            ELSE IF i = 18 THEN And255(lenVal)
            ELSE dmxData[i - ArtNetHeaderLen]]

\* Mutant: the universe is written high byte first.
FillPacketBuffer_universeHighFirst(buf, seq, universe, dmxData) ==
    LET lenVal == Len(dmxData)
        top == IF Len(buf) > ArtNetHeaderLen + lenVal THEN Len(buf) ELSE ArtNetHeaderLen + lenVal
    IN  [i \in 1..top |->
            IF i <= 12 THEN ARTNET_HEADER[i]
            ELSE IF i = 13 THEN seq
            ELSE IF i = 14 THEN 0
            ELSE IF i = 15 THEN And255(Shr8(universe))
            ELSE IF i = 16 THEN And255(universe)
            ELSE IF i = 17 THEN And255(Shr8(lenVal))
            ELSE IF i = 18 THEN And255(lenVal)
            ELSE IF i <= ArtNetHeaderLen + lenVal THEN dmxData[i - ArtNetHeaderLen]
            ELSE buf[i]]

\* fillPacketBuffer: the reusable buffer after the writes.
FillPacketBuffer(buf, seq, universe, dmxData) ==
    LET lenVal == Len(dmxData)
        top == IF Len(buf) > ArtNetHeaderLen + lenVal THEN Len(buf) ELSE ArtNetHeaderLen + lenVal
    IN  [i \in 1..top |->
            IF i <= 12 THEN ARTNET_HEADER[i]
            ELSE IF i = 13 THEN seq
            ELSE IF i = 14 THEN 0
            ELSE IF i = 15 THEN And255(universe)
            ELSE IF i = 16 THEN And255(Shr8(universe))
            ELSE IF i = 17 THEN And255(Shr8(lenVal))
            ELSE IF i = 18 THEN And255(lenVal)
            ELSE IF i <= ArtNetHeaderLen + lenVal THEN dmxData[i - ArtNetHeaderLen]
            ELSE buf[i]]

\* reusablePacket.slice(0, 18 + lenVal)
PacketSlice(buf, dmxData) == SubSeq(buf, 1, ArtNetHeaderLen + Len(dmxData))

\* The JSON envelope of one packet.
Envelope(settings, packet) ==
    [type |-> "broadcast-artnet", host |-> settings.artNetIp,
     port |-> settings.artNetPort, data |-> packet]

\* `for (const uKey in obj)`: integer keys come in ascending order.
RECURSIVE Ascending(_)
Ascending(S) ==
    IF S = {} THEN <<>>
    ELSE LET m == CHOOSE x \in S : \A y \in S : x <= y
         IN  <<m>> \o Ascending(S \ {m})

\* --------------------------------------------------- universe multiplexer
\* (a / 512) | 0 and a % 512 truncate towards zero.
JsDiv(a, n) == IF a >= 0 THEN a \div n ELSE -((-a) \div n)
JsRem(a, n) == IF a >= 0 THEN a % n ELSE -((-a) % n)

ZeroUniverse == [i \in 1..UniverseSize |-> 0]

\* Mutant: the step never moves to the next universe.
NextChannel_noCarry(p) == <<p[1], p[2] + 1>>

\* The step to the next channel: `if (ch === 511) { u++; ch = 0; } else { ch++; }`
NextChannel(p) == IF p[2] = UniverseSize - 1 THEN <<p[1] + 1, 0>> ELSE <<p[1], p[2] + 1>>

\* The four <<universe, channel, value>> writes of one LED, as the unrolled loop makes them.
LedWrites(baseAddr, color) ==
    LET p0 == <<JsDiv(baseAddr, UniverseSize), JsRem(baseAddr, UniverseSize)>>
        p1 == NextChannel(p0)
        p2 == NextChannel(p1)
        p3 == NextChannel(p2)
    IN  << <<p0[1], p0[2], color.r>>, <<p1[1], p1[2], color.g>>,
           <<p2[1], p2[2], color.b>>, <<p3[1], p3[2], color.w>> >>

RECURSIVE FixtureLedWrites(_, _, _)
FixtureLedWrites(globalStart, colors, i) ==
    IF i >= Len(colors) THEN <<>>
    ELSE LedWrites(globalStart + (i * 4), colors[i + 1])
         \o FixtureLedWrites(globalStart, colors, i + 1)

\* Mutant: no guard; the colours present are written.
FixtureWrites_noGuard(fixture) ==
    LET globalStart == (fixture.universe * UniverseSize) + (fixture.startAddress - 1)
    IN  FixtureLedWrites(globalStart, fixture.colorData, 0)

\* One iteration of fixtures.forEach: nothing for a missing or mismatched colorData.
FixtureWrites(fixture) ==
    LET globalStart == (fixture.universe * UniverseSize) + (fixture.startAddress - 1)
    IN  IF fixture.colorData = <<>> \/ Len(fixture.colorData) # fixture.ledCount
        THEN <<>>
        ELSE FixtureLedWrites(globalStart, fixture.colorData, 0)

RECURSIVE FrameWrites(_)
FrameWrites(fs) ==
    IF fs = <<>> THEN <<>>
    ELSE FixtureWrites(Head(fs)) \o FrameWrites(Tail(fs))

\* Mutant: a channel written twice keeps the larger value.
WriteChannel_max(fd, w) ==
    LET u == w[1]
        base == IF u \in DOMAIN fd THEN fd[u] ELSE ZeroUniverse
        old == base[w[2] + 1]
    IN  With(fd, u, [base EXCEPT ![w[2] + 1] = IF old > w[3] THEN old ELSE w[3]])

\* Mutant: a write also allocates the buffer of the universe after its own.
WriteChannel_eager(fd, w) ==
    LET u == w[1]
        base == IF u \in DOMAIN fd THEN fd[u] ELSE ZeroUniverse
        next == IF (u + 1) \in DOMAIN fd THEN fd[u + 1] ELSE ZeroUniverse
    IN  With(With(fd, u + 1, next), u, [base EXCEPT ![w[2] + 1] = w[3]])

\* currentFrameData[u][ch] = v, allocating a zeroed universe on first use.
WriteChannel(fd, w) ==
    LET u == w[1]
        base == IF u \in DOMAIN fd THEN fd[u] ELSE ZeroUniverse
    IN  With(fd, u, [base EXCEPT ![w[2] + 1] = w[3]])

RECURSIVE ApplyWrites(_, _)
ApplyWrites(fd, ws) ==
    IF ws = <<>> THEN fd ELSE ApplyWrites(WriteChannel(fd, Head(ws)), Tail(ws))

\* Mutant: the universe buffers of the previous frame are reused.
FrameStart_keepsPrevious == IF frames = <<>> THEN <<>> ELSE frames[Len(frames)].data

\* `const currentFrameData = {}`: every frame starts without universe buffers.
FrameStart == <<>>

\* currentFrameData at the end of the forEach.
CurrentFrameData(fs) == ApplyWrites(FrameStart, FrameWrites(fs))

\* ------------------------------------------------------------ inputs
Black == [r |-> 0, g |-> 0, b |-> 0, w |-> 0]
Red == [r |-> 200, g |-> 1, b |-> 2, w |-> 3]
Blue == [r |-> 4, g |-> 5, b |-> 255, w |-> 6]
Split == [universe |-> 0, startAddress |-> 511, ledCount |-> 1, colorData |-> <<Red>>]
Strip == [universe |-> 0, startAddress |-> 1, ledCount |-> 2, colorData |-> <<Red, Blue>>]
Over == [universe |-> 0, startAddress |-> 3, ledCount |-> 1, colorData |-> <<Blue>>]
High == [universe |-> 255, startAddress |-> 510, ledCount |-> 2, colorData |-> <<Blue, Red>>]
Edge == [universe |-> 1, startAddress |-> 512, ledCount |-> 1, colorData |-> <<Red>>]
Short == [universe |-> 0, startAddress |-> 1, ledCount |-> 2, colorData |-> <<Red>>]
Unsampled == [universe |-> 2, startAddress |-> 1, ledCount |-> 1, colorData |-> <<>>]
FixtureLists ==
    { <<Split>>, <<Strip, Over>>, <<Over, Strip>>, <<High, Edge>>, <<Short, Split>>,
      <<Unsampled>> }

UniverseDatas ==
    { <<>>,
      (3 :> <<10, 20>>),
      (0 :> <<>>) @@ (257 :> <<255>>),
      (32767 :> [i \in 1..UniverseSize |-> i % 256]) @@ (1 :> <<7, 0, 9>>) }

Enabled == [useWsBridge |-> TRUE, artNetIp |-> "127.0.0.1", artNetPort |-> 6454]
Disabled == [Enabled EXCEPT !.useWsBridge = FALSE]
DmxRequests == (FixtureLists \X {Enabled}) \cup {<<(<<Split>>), Disabled>>}
FrameRequests == (UniverseDatas \X {Enabled}) \cup {<<(3 :> <<10, 20>>), Disabled>>}

BufferLevels == {0, BackpressureLimit, BackpressureLimit + 1}

\* App's initial fixture list: one strip; InitialLeds LEDs stand for its 60.
InitialFixtures ==
    << [id |-> "fix-1", x |-> 15, y |-> 15, width |-> 70, height |-> 10, rotation |-> 0,
        universe |-> 0, startAddress |-> 1, ledCount |-> InitialLeds, reverse |-> FALSE,
        colorData |-> <<>>] >>

\* Partial<Fixture> updates of the editor: a move, a change of the LED count,
\* a change of the universe.
Updates ==
    { [field |-> "x", value |-> 16],
      [field |-> "ledCount", value |-> 1],
      [field |-> "universe", value |-> 1] }

SourceFrames == {1, 2}

\* Fixtures of project files: two strips of the same geometry, one reversed,
\* a single LED and a fixture without LEDs.
Plain == [InitialFixtures[1] EXCEPT !.id = "plain", !.x = 10, !.colorData = <<Red, Blue>>]
Mirror == [Plain EXCEPT !.id = "mirror", !.reverse = TRUE, !.startAddress = 9]
One == [Plain EXCEPT !.id = "one", !.x = 40, !.ledCount = 1, !.universe = 1]
Dark == [Plain EXCEPT !.id = "dark", !.x = 60, !.ledCount = 0]
ProjectLists ==
    { <<>>, <<Dark>>, <<Plain, Mirror>>, <<Mirror, One>>, <<One, Dark, Plain>> }
AppDeltas == {MinSendInterval}

\* Positions of the packets of a frame whose socket.send throws.
FailSets == {{}, {1}}
FrameDeltas == {MinSendInterval}
FrameBufferLevels == {0, BackpressureLimit + 1}
FrameDmxRequests == { <<High, Edge>>, <<Short, Split>>, <<Unsampled>> } \X {Enabled}
FrameDataRequests ==
    { (3 :> <<10, 20>>), (0 :> <<>>) @@ (257 :> <<255>>) } \X {Enabled}

\* ----------------------------------------------------------- actions
\* A call creates a socket unless it returns early or the constructor throws.
CreatesSocket(s, url) ==
    /\ ~CtorThrows(url)
    /\ ~(/\ s.socket # NoSocket
         /\ s.activeUrl = url
         /\ s.socks[s.socket].readyState \in {"OPEN", "CONNECTING"})

Room(s, url) == CreatesSocket(s, url) => Cardinality(DOMAIN s.socks) < MaxSockets

\* The application before its first commit: useState initial values, no
\* effect has run, no mapper exists.
Unmounted ==
    /\ mounted = "no"
    /\ fixtures = InitialFixtures
    /\ isBridgeConnected = FALSE
    /\ pendingFixtures = <<>>
    /\ effectsDue = FALSE
    /\ loop = <<>>
    /\ fixturesRef = InitialFixtures
    /\ layoutDeps = <<>>
    /\ sampleMap = <<>>
    /\ totalLeds = 0
    /\ srcFrame = 0
    /\ remapped = FALSE

\* A new GPUMapper (brightness 1.0) that has converted nothing, and the relay
\* after start with no message received.
Idle ==
    /\ brightness = Full
    /\ texel = <<0, 0, 0>>
    /\ rgbw = Black
    /\ via = "none"
    /\ channel = <<>>
    /\ udpOpen = TRUE
    /\ datagrams = <<>>
    /\ handled = <<>>

Init ==
    /\ version \in {1, 2}
    /\ socket = NoSocket
    /\ activeUrl = NoUrl
    /\ lastSendTime = 0
    /\ sequence = 0
    /\ reconnectTimer = NoTimer
    /\ isConnected = FALSE
    /\ socks = <<>>
    /\ timers = <<>>
    /\ now = 0
    /\ ticks = 0
    /\ reusablePacket = [i \in 1..(ArtNetHeaderLen + UniverseSize) |-> 0]
    /\ lastCall = "none"
    /\ ev = "other"
    /\ req = [input |-> <<>>, useWsBridge |-> FALSE, artNetIp |-> "", artNetPort |-> 0]
    /\ wire = <<>>
    /\ tx = <<>>
    /\ dropped = FALSE
    /\ listeners = {}
    /\ heard = <<>>
    /\ retired = {}
    /\ called = {}
    /\ keepFrames = FALSE
    /\ frames = <<>>
    /\ Unmounted
    /\ Idle

\* A component registers the status listener l (a fresh closure).
CallAddStatusListener(l) ==
    /\ l \notin listeners \cup retired
    /\ Commit(AddStatusListener(Cur, l))
    /\ ev' = "other"
    /\ UNCHANGED <<config, now, ticks, lastCall, sendState>>

\* A component calls the unsubscribe function of its listener l.
CallUnsubscribe(l) ==
    /\ l \in listeners
    /\ Commit(Unsubscribe(Cur, l))
    /\ ev' = "other"
    /\ UNCHANGED <<config, now, ticks, lastCall, sendState>>

\* The application calls connectToBridge(url).
CallConnect(url) ==
    /\ Room(Cur, url)
    /\ Commit(ConnectToBridge(Cur, url))
    /\ lastCall' = "connect"
    /\ ev' = "other"
    /\ UNCHANGED <<config, now, ticks, sendState>>

\* The application calls disconnectBridge().
CallDisconnect ==
    /\ Commit(DisconnectBridge(Cur, TRUE))
    /\ lastCall' = "disconnect"
    /\ ev' = "other"
    /\ UNCHANGED <<config, now, ticks, sendState>>

\* The handshake of socket id succeeds: readyState OPEN, open event.
SocketOpens(id) ==
    /\ id \in DOMAIN socks
    /\ socks[id].readyState = "CONNECTING"
    /\ Commit(OnOpen([Cur EXCEPT !.socks[id].readyState = "OPEN"]))
    /\ ev' = "other"
    /\ UNCHANGED <<config, now, ticks, lastCall, sendState>>

\* The peer starts the closing handshake of an open socket.
SocketStartsClosing(id) ==
    /\ id \in DOMAIN socks
    /\ socks[id].readyState = "OPEN"
    /\ Commit([Cur EXCEPT !.socks[id].readyState = "CLOSING"])
    /\ ev' = "other"
    /\ UNCHANGED <<config, now, ticks, lastCall, sendState>>

\* Socket id is closed (failed handshake, lost connection, finished closing
\* handshake): readyState CLOSED, close event; its onclose runs if still set.
SocketClosed(id) ==
    /\ id \in DOMAIN socks
    /\ LET gone == [Cur EXCEPT !.socks = Without(@, id)]
       IN  IF socks[id].onclose
           THEN Commit(OnClose(gone, now)) /\ ev' = "close"
           ELSE Commit(gone) /\ ev' = "other"
    /\ UNCHANGED <<config, now, ticks, lastCall, sendState>>

\* Timeout h is due and its callback runs.
TimerFires(h) ==
    /\ h \in DOMAIN timers
    /\ now >= timers[h]
    /\ LET s == [Cur EXCEPT !.timers = Without(@, h)]
       IN  /\ Room([s EXCEPT !.reconnectTimer = NoTimer], s.activeUrl)
           /\ Commit(ReconnectCallback(s, version))
    /\ ev' = "timer"
    /\ UNCHANGED <<config, now, ticks, lastCall, sendState>>

\* Time passes.
Advance(d) ==
    /\ ticks < MaxTicks
    /\ now' = now + d
    /\ ticks' = ticks + 1
    /\ ev' = "other"
    /\ called' = {}
    /\ UNCHANGED <<config, life, lastCall, sendState>>

\* The browser queues or drains data of an open socket.
BufferedAmountChanges(id, b) ==
    /\ id \in DOMAIN socks
    /\ socks[id].readyState = "OPEN"
    /\ socks[id].bufferedAmount # b
    /\ Commit([Cur EXCEPT !.socks[id].bufferedAmount = b])
    /\ ev' = "other"
    /\ UNCHANGED <<config, now, ticks, lastCall, sendState>>

\* The inputs of a send request.
Request(input, settings) ==
    [input |-> input, useWsBridge |-> settings.useWsBridge, artNetIp |-> settings.artNetIp,
     artNetPort |-> settings.artNetPort]

\* Mutant: the cap is one millisecond short.
TooSoon_short(t, last) == t - last < MinSendInterval - 1

\* `now - lastSendTime < 22`
TooSoon(t, last) == t - last < MinSendInterval

\* Mutant: a buffer holding exactly the limit counts as full.
BufferFull_atLimit(amount) == amount >= BackpressureLimit

\* `socket.bufferedAmount > 64 * 1024`
BufferFull(amount) == amount > BackpressureLimit

\* Mutant: the counter does not wrap.
NextSequence_noWrap(s) == s + 1

\* `(sequence + 1) % 256`
NextSequence(s) == (s + 1) % 256

LastTwo(log) == IF Len(log) > 2 THEN Tail(log) ELSE log

\* Mutant: one try around the whole loop; the first throw ends the frame.
Attempted_untilThrow(envelopes, fails) ==
    LET bad == fails \cap (1..Len(envelopes))
    IN  IF bad = {} THEN envelopes
        ELSE SubSeq(envelopes, 1, CHOOSE i \in bad : \A j \in bad : i <= j)

\* The envelopes the send loop passes to socket.send when the calls at the
\* positions `fails` throw: the try/catch is inside the loop, so all of them.
Attempted(envelopes, fails) == envelopes

\* The record of a transmitted frame.
Keep(data, n, fails) ==
    IF keepFrames
    THEN LastTwo(Append(frames, [data |-> data, thrown |-> fails \cap (1..n)]))
    ELSE frames

\* sendDmxData(fixtures, settings), first revision; socket.send throws for the
\* packets at the positions `fails`.
SendDmxData(fs, settings, fails) ==
    /\ version = 1
    /\ req' = Request(fs, settings)
    /\ ev' = "send"
    /\ IF ~settings.useWsBridge \/ socket = NoSocket \/ socks[socket].readyState # "OPEN"
       THEN wire' = <<>> /\ UNCHANGED <<lastSendTime, sequence, tx, frames>>
       ELSE IF TooSoon(now, lastSendTime)
       THEN wire' = <<>> /\ UNCHANGED <<lastSendTime, sequence, tx, frames>>
       ELSE LET currentFrameData == CurrentFrameData(fs)
                seq == NextSequence(sequence)
                keys == Ascending(DOMAIN currentFrameData)
            IN  /\ lastSendTime' = now
                /\ sequence' = seq
                /\ wire' = Attempted([k \in 1..Len(keys) |->
                                Envelope(settings,
                                         BuildArtNetPacket(seq, keys[k],
                                                           currentFrameData[keys[k]]))],
                                      fails)
                /\ tx' = LastTwo(Append(tx, [time |-> now, seq |-> seq]))
                /\ frames' = Keep(currentFrameData, Len(keys), fails)
    /\ called' = {}
    /\ UNCHANGED <<version, keepFrames, shader, life, now, ticks, reusablePacket, lastCall,
                   dropped>>

\* The loop of sendArtNetFrame over the keys ks: <<reusable buffer, envelopes sent>>.
RECURSIVE SendUniverses(_, _, _, _, _, _)
SendUniverses(buf, sent, seq, universeData, settings, ks) ==
    IF ks = <<>> THEN <<buf, sent>>
    ELSE LET data == universeData[Head(ks)]
             filled == FillPacketBuffer(buf, seq, Head(ks), data)
         IN  SendUniverses(filled, Append(sent, Envelope(settings, PacketSlice(filled, data))),
                           seq, universeData, settings, Tail(ks))

\* sendArtNetFrame(universeData, settings), second revision; socket.send throws
\* for the packets at the positions `fails`.
SendArtNetFrame(universeData, settings, fails) ==
    /\ version = 2
    /\ req' = Request(universeData, settings)
    /\ ev' = "send"
    /\ IF ~settings.useWsBridge \/ socket = NoSocket \/ socks[socket].readyState # "OPEN"
       THEN wire' = <<>>
            /\ UNCHANGED <<lastSendTime, sequence, tx, reusablePacket, dropped, frames>>
       ELSE IF BufferFull(socks[socket].bufferedAmount)
       THEN wire' = <<>> /\ dropped' = TRUE
            /\ UNCHANGED <<lastSendTime, sequence, tx, reusablePacket, frames>>
       ELSE IF TooSoon(now, lastSendTime)
       THEN wire' = <<>>
            /\ UNCHANGED <<lastSendTime, sequence, tx, reusablePacket, dropped, frames>>
       ELSE LET seq == NextSequence(sequence)
                out == SendUniverses(reusablePacket, <<>>, seq, universeData, settings,
                                     Ascending(DOMAIN universeData))
            IN  /\ lastSendTime' = now
                /\ sequence' = seq
                /\ reusablePacket' = out[1]
                /\ wire' = Attempted(out[2], fails)
                /\ tx' = LastTwo(Append(tx, [time |-> now, seq |-> seq]))
                /\ frames' = Keep(universeData, Len(out[2]), fails)
                /\ UNCHANGED dropped
    /\ called' = {}
    /\ UNCHANGED <<config, life, now, ticks, lastCall>>

\* The connection life cycle.
Next ==
    \/ \E url \in Urls : CallConnect(url)
    \/ CallDisconnect
    \/ \E id \in DOMAIN socks : SocketOpens(id)
    \/ \E id \in DOMAIN socks : SocketStartsClosing(id)
    \/ \E id \in DOMAIN socks : SocketClosed(id)
    \/ \E h \in DOMAIN timers : TimerFires(h)
    \/ \E d \in Deltas : Advance(d)
    \/ \E l \in Listeners : CallAddStatusListener(l)
    \/ \E l \in Listeners : CallUnsubscribe(l)

Spec == Init /\ [][Next]_vars

\* The send paths, over a connection to one bridge that opens, fills, drains and closes.
SendNext ==
    \/ CallConnect(BridgeUrl)
    \/ \E id \in DOMAIN socks : SocketOpens(id)
    \/ \E id \in DOMAIN socks : SocketClosed(id)
    \/ \E d \in SendDeltas : Advance(d)
    \/ \E id \in DOMAIN socks, b \in BufferLevels : BufferedAmountChanges(id, b)
    \/ \E r \in DmxRequests : SendDmxData(r[1], r[2], {}) /\ UNCHANGED <<ui, relay>>
    \/ \E r \in FrameRequests : SendArtNetFrame(r[1], r[2], {})

SendSpec == Init /\ [][SendNext]_vars

\* The module after WrapFrames frames sent MinSendInterval apart: the sequence
\* counter is two frames from wrapping.
WrapInit ==
    /\ version \in {1, 2}
    /\ socket = NoSocket
    /\ activeUrl = NoUrl
    /\ lastSendTime = WrapFrames * MinSendInterval
    /\ sequence = WrapFrames
    /\ reconnectTimer = NoTimer
    /\ isConnected = FALSE
    /\ socks = <<>>
    /\ timers = <<>>
    /\ now = WrapFrames * MinSendInterval
    /\ ticks = 0
    /\ reusablePacket = [i \in 1..(ArtNetHeaderLen + UniverseSize) |-> 0]
    /\ lastCall = "none"
    /\ ev = "other"
    /\ req = [input |-> <<>>, useWsBridge |-> FALSE, artNetIp |-> "", artNetPort |-> 0]
    /\ wire = <<>>
    /\ tx = <<[time |-> WrapFrames * MinSendInterval, seq |-> WrapFrames]>>
    /\ dropped = FALSE
    /\ listeners = {}
    /\ heard = <<>>
    /\ retired = {}
    /\ called = {}
    /\ keepFrames = FALSE
    /\ frames = <<>>
    /\ Unmounted
    /\ Idle

WrapSpec == WrapInit /\ [][SendNext]_vars

\* The frames of a mounted application.  App's connection effect has run: its
\* status listener is registered and connectToBridge(BridgeUrl) has created
\* the socket.  The socket opens, requests come MinSendInterval apart or at
\* once, the socket buffer fills and drains, and socket.send may throw.
FrameInit ==
    /\ version \in {1, 2}
    /\ socket = 1
    /\ activeUrl = BridgeUrl
    /\ lastSendTime = 0
    /\ sequence = 0
    /\ reconnectTimer = NoTimer
    /\ isConnected = FALSE
    /\ socks = (1 :> [readyState |-> "CONNECTING", onclose |-> TRUE,
                      url |-> BridgeUrl, bufferedAmount |-> 0])
    /\ timers = <<>>
    /\ now = 0
    /\ ticks = 0
    /\ reusablePacket = [i \in 1..(ArtNetHeaderLen + UniverseSize) |-> 0]
    /\ lastCall = "connect"
    /\ ev = "other"
    /\ req = [input |-> <<>>, useWsBridge |-> FALSE, artNetIp |-> "", artNetPort |-> 0]
    /\ wire = <<>>
    /\ tx = <<>>
    /\ dropped = FALSE
    /\ listeners = {AppListener}
    /\ heard = (AppListener :> FALSE)
    /\ retired = {}
    /\ called = {}
    /\ keepFrames = TRUE
    /\ frames = <<>>
    /\ Unmounted
    /\ Idle

FrameNext ==
    \/ \E id \in DOMAIN socks : SocketOpens(id)
    \/ \E d \in FrameDeltas : Advance(d)
    \/ \E id \in DOMAIN socks, b \in FrameBufferLevels : BufferedAmountChanges(id, b)
    \/ \E r \in FrameDmxRequests, fails \in FailSets :
          SendDmxData(r[1], r[2], fails) /\ UNCHANGED <<ui, relay>>
    \/ \E r \in FrameDataRequests, fails \in FailSets : SendArtNetFrame(r[1], r[2], fails)

FrameSpec == FrameInit /\ [][FrameNext]_vars

\* ------------------------------------------------------ colour conversion
\* Mutant: the blue channel is left out of the minimum.
MinVal_ofTwo(r, g, b) == IF r <= g THEN r ELSE g

\* Math.min(r, g, b); in the shader min(min(color.r, color.g), color.b).
MinVal(r, g, b) ==
    LET m == IF r <= g THEN r ELSE g
    IN  IF m <= b THEN m ELSE b

\* colorUtils.rgbToRgbw with factor 1.0; Math.floor leaves the integers.
RgbToRgbw(r, g, b) ==
    LET minVal == MinVal(r, g, b)
    IN  [r |-> r - minVal, g |-> g - minVal, b |-> b - minVal, w |-> minVal]

\* setBrightness: Math.max(0, Math.min(1, value)), in quarters.
ClampBrightness(value) ==
    LET low == IF value < Full THEN value ELSE Full
    IN  IF low > 0 THEN low ELSE 0

\* The 8-bit values the framebuffer may hold for the float p / Full (in units
\* of 1/255): the nearest integer; for a tie the driver picks either neighbour.
Quantize(p) ==
    LET q == p \div Full
        rest == p % Full
    IN  IF 2 * rest < Full THEN {q}
        ELSE IF 2 * rest > Full THEN {q + 1}
        ELSE {q, q + 1}

\* gl_FragColor of the fragment shader for the source colour (r, g, b), as the
\* RGBA bytes readPixels returns.
FragColors(r, g, b, bq) ==
    LET minVal == MinVal(r, g, b)
    IN  [r : Quantize((r - minVal) * bq), g : Quantize((g - minVal) * bq),
         b : Quantize((b - minVal) * bq), w : Quantize(minVal * bq)]

\* 8-bit channel values of source pixels, and values given to setBrightness.
Bytes == {0, 150, 200, 255}
BrightnessValues == {-2, 0, Half, 3, Full, 6}

\* rgbToRgbw(r, g, b) is called.
CallRgbToRgbw(r, g, b) ==
    /\ texel' = <<r, g, b>>
    /\ rgbw' = RgbToRgbw(r, g, b)
    /\ via' = "js"
    /\ ev' = "other"
    /\ called' = {}
    /\ UNCHANGED <<version, keepFrames, brightness, relay, ui, life, now, ticks, lastCall,
                   sendState>>

\* Stage's effect on globalBrightness: mapper.setBrightness(value).
SetBrightness(value) ==
    /\ brightness' = ClampBrightness(value)
    /\ brightness' # brightness
    /\ ev' = "other"
    /\ called' = {}
    /\ UNCHANGED <<version, keepFrames, texel, rgbw, via, relay, ui, life, now, ticks,
                   lastCall, sendState>>

\* read() draws one LED whose sample position holds the colour (r, g, b).
Shade(r, g, b) ==
    /\ texel' = <<r, g, b>>
    /\ rgbw' \in FragColors(r, g, b, brightness)
    /\ via' = "gpu"
    /\ ev' = "other"
    /\ called' = {}
    /\ UNCHANGED <<version, keepFrames, brightness, relay, ui, life, now, ticks, lastCall,
                   sendState>>


\* ------------------------------------------------- application (App, Stage)
\* fixtureLayoutSignature: JSON.stringify of the layout fields of each fixture.
\* The string of a list is determined by, and determines, this list of values.
FixtureLayoutSignature(fs) ==
    [k \in 1..Len(fs) |->
        <<"id", fs[k].id, "x", fs[k].x, "y", fs[k].y, "w", fs[k].width,
          "h", fs[k].height, "r", fs[k].rotation, "c", fs[k].ledCount>>]

\* The sample coordinate of LED i of a fixture, as the values it is computed from.
SampleCoord(f, i) ==
    [x |-> f.x, y |-> f.y, width |-> f.width, height |-> f.height,
     rotation |-> f.rotation, ledCount |-> f.ledCount, i |-> i]

RECURSIVE MapCoords(_)
MapCoords(fs) ==
    IF fs = <<>> THEN <<>>
    ELSE [i \in 1..Head(fs).ledCount |-> SampleCoord(Head(fs), i - 1)] \o MapCoords(Tail(fs))

RECURSIVE SumLeds(_)
SumLeds(fs) == IF fs = <<>> THEN 0 ELSE Head(fs).ledCount + SumLeds(Tail(fs))

\* Mutant: the coordinates of the last fixture come first.
UpdateMapping_lastFirst(map, fs) ==
    IF SumLeds(fs) = 0 THEN <<map, 0>>
    ELSE <<MapCoords([k \in 1..Len(fs) |-> fs[Len(fs) + 1 - k]]), SumLeds(fs)>>

\* GPUMapper.updateMapping(fixtures): <<map, totalLeds>>; with no LED it only
\* sets totalLeds and leaves the map texture.
UpdateMapping(map, fs) ==
    IF SumLeds(fs) = 0 THEN <<map, 0>> ELSE <<MapCoords(fs), SumLeds(fs)>>

\* The RGBW value the shader outputs for a coordinate of the canvas holding
\* source frame `frame`; frame 0 is the canvas nothing was drawn into yet.
Pixel(frame, coord) ==
    IF frame = 0 THEN Black
    ELSE [r |-> (100 * frame) + coord.i, g |-> coord.x, b |-> coord.ledCount, w |-> frame]

\* GPUMapper.read(): one RGBW value per LED of the map, <<>> for null.
Read(map, n, frame) == IF n = 0 THEN <<>> ELSE [k \in 1..n |-> Pixel(frame, map[k])]

\* Mutant: the list is left in LED order.
Reverse_none(sq) == sq

Reverse(sq) == [i \in 1..Len(sq) |-> sq[Len(sq) + 1 - i]]

\* tick: the fixtures of fixturesRef with the colours of rawBytes from `offset` on.
RECURSIVE UpdatedFixtures(_, _, _)
UpdatedFixtures(fs, rawBytes, offset) ==
    IF fs = <<>> THEN <<>>
    ELSE LET f == Head(fs)
             colors == [i \in 1..f.ledCount |->
                           IF offset + i <= Len(rawBytes) THEN rawBytes[offset + i] ELSE Black]
         IN  <<[f EXCEPT !.colorData = IF f.reverse THEN Reverse(colors) ELSE colors]>>
             \o UpdatedFixtures(Tail(fs), rawBytes, offset + f.ledCount)

\* handleUpdateFixture: fixtures.map(f => f.id === id ? {...f, ...updates} : f)
UpdateFixture(fs, id, u) ==
    [k \in 1..Len(fs) |-> IF fs[k].id = id THEN [fs[k] EXCEPT ![u.field] = u.value] ELSE fs[k]]

\* Mutant: the loop effect does not depend on `fixtures`; the first closure stays.
LoopClosure_keepsFirst(old, fs, connected) ==
    IF old = <<>> THEN <<[fixtures |-> fs, isBridgeConnected |-> connected]>>
    ELSE <<[fixtures |-> old[1].fixtures, isBridgeConnected |-> connected]>>

\* The `loop` callback the main-loop effect creates: it closes over the
\* fixtures and isBridgeConnected of the render the effect belongs to.
LoopClosure(old, fs, connected) == <<[fixtures |-> fs, isBridgeConnected |-> connected]>>

\* Mutant: the mapping effect depends on `fixtures`, it runs after every commit.
LayoutChanged_always(deps, fs) == TRUE

\* The dependency check of the mapping effect: [fixtureLayoutSignature].
LayoutChanged(deps, fs) == deps # FixtureLayoutSignature(fs)

\* The body of `loop`: sendDmxData if the bridge is enabled and connected.
LoopBody(c) ==
    IF Enabled.useWsBridge /\ c.isBridgeConnected
    THEN SendDmxData(c.fixtures, Enabled, {}) /\ UNCHANGED relay
    ELSE /\ ev' = "other"
         /\ called' = {}
         /\ UNCHANGED <<build, life, now, ticks, lastCall, sendState>>

\* First commit and its effects.  Stage: the mapper is created and
\* updateMapping(fixtures) runs, the tick is armed.  App: the status listener
\* registers, connectToBridge(settings.wsBridgeUrl), `loop` runs once (not
\* connected: nothing is sent) and is armed.
Mount ==
    /\ mounted = "no"
    /\ mounted' = "yes"
    /\ LET m == UpdateMapping(sampleMap, fixtures)
       IN  sampleMap' = m[1] /\ totalLeds' = m[2]
    /\ layoutDeps' = FixtureLayoutSignature(fixtures)
    /\ remapped' = TRUE
    /\ fixturesRef' = fixtures
    /\ loop' = LoopClosure(loop, fixtures, isBridgeConnected)
    /\ Room(Cur, BridgeUrl)
    /\ Commit(ConnectToBridge(AddStatusListener(Cur, AppListener), BridgeUrl))
    /\ lastCall' = "connect"
    /\ ev' = "other"
    /\ UNCHANGED <<build, now, ticks, sendState, fixtures, isBridgeConnected,
                   pendingFixtures, effectsDue, srcFrame>>

\* Stage's tick when the source shows `frame`: the frame is drawn into the
\* canvas if the source is ready; then updateSource(canvas), read,
\* onUpdateFixtures(updatedFixtures) = setFixtures(updatedFixtures).
SampleTick(frame, ready) ==
    /\ mounted = "yes"
    /\ srcFrame' = IF ready THEN frame ELSE srcFrame
    /\ LET rawBytes == Read(sampleMap, totalLeds, srcFrame')
       IN  pendingFixtures' = IF rawBytes = <<>> THEN pendingFixtures
                              ELSE <<UpdatedFixtures(fixturesRef, rawBytes, 0)>>
    /\ ev' = IF ready THEN "sample" ELSE "unready"
    /\ called' = {}
    /\ UNCHANGED <<build, life, now, ticks, lastCall, sendState, mounted,
                   fixtures, isBridgeConnected, effectsDue, loop, fixturesRef, layoutDeps,
                   sampleMap, totalLeds, remapped>>

\* The editor calls handleUpdateFixture(id, u) of the last render.
Edit(id, u) ==
    /\ mounted = "yes"
    /\ \E k \in 1..Len(fixtures) : fixtures[k].id = id /\ fixtures[k][u.field] # u.value
    /\ pendingFixtures' = <<UpdateFixture(fixtures, id, u)>>
    /\ ev' = "other"
    /\ called' = {}
    /\ UNCHANGED <<build, life, now, ticks, lastCall, sendState, mounted,
                   fixtures, isBridgeConnected, effectsDue, loop, fixturesRef, layoutDeps,
                   sampleMap, totalLeds, srcFrame, remapped>>

\* handleLoadProject: the FileReader delivers a project file with the fixture
\* list `list`; setFixtures(list with every colorData emptied).
LoadProject(list) ==
    /\ mounted = "yes"
    /\ pendingFixtures' = <<[k \in 1..Len(list) |-> [list[k] EXCEPT !.colorData = <<>>]]>>
    /\ ev' = "other"
    /\ called' = {}
    /\ UNCHANGED <<build, life, now, ticks, lastCall, sendState, mounted,
                   fixtures, isBridgeConnected, effectsDue, loop, fixturesRef, layoutDeps,
                   sampleMap, totalLeds, srcFrame, remapped>>

\* React renders and commits the pending state: the last setFixtures value and
\* the last status App's listener passed to setIsBridgeConnected.  Effects of
\* the commit before have run by then.
Render ==
    /\ mounted = "yes"
    /\ ~effectsDue
    /\ pendingFixtures # <<>> \/ heard[AppListener] # isBridgeConnected
    /\ fixtures' = IF pendingFixtures # <<>> THEN pendingFixtures[1] ELSE fixtures
    /\ isBridgeConnected' = heard[AppListener]
    /\ pendingFixtures' = <<>>
    /\ effectsDue' = TRUE
    /\ ev' = "other"
    /\ called' = {}
    /\ UNCHANGED <<build, life, now, ticks, lastCall, sendState, mounted,
                   loop, fixturesRef, layoutDeps, sampleMap, totalLeds, srcFrame, remapped>>

\* React flushes the passive effects of the last commit.  Stage: fixturesRef
\* follows, the mapping effect runs if its dependency changed.  App: the
\* main-loop effect is replaced: the old callback is cancelled, the new `loop`
\* runs once at once and is armed.
Effects ==
    /\ mounted = "yes"
    /\ effectsDue
    /\ effectsDue' = FALSE
    /\ fixturesRef' = fixtures
    /\ IF LayoutChanged(layoutDeps, fixtures)
       THEN /\ LET m == UpdateMapping(sampleMap, fixtures)
               IN  sampleMap' = m[1] /\ totalLeds' = m[2]
            /\ remapped' = TRUE
       ELSE /\ UNCHANGED <<sampleMap, totalLeds>>
            /\ remapped' = FALSE
    /\ layoutDeps' = FixtureLayoutSignature(fixtures)
    /\ loop' = LoopClosure(loop, fixtures, isBridgeConnected)
    /\ LoopBody(LoopClosure(loop, fixtures, isBridgeConnected)[1])
    /\ UNCHANGED <<mounted, fixtures, isBridgeConnected, pendingFixtures, srcFrame>>

\* The animation-frame callback of the armed `loop`.
LoopTick ==
    /\ mounted = "yes"
    /\ loop # <<>>
    /\ LoopBody(loop[1])
    /\ UNCHANGED ui

\* App unmounts: the cleanups run: unsubscribe(), cancelAnimationFrame of the
\* loop and of the tick.
Unmount ==
    /\ mounted = "yes"
    /\ mounted' = "gone"
    /\ loop' = <<>>
    /\ pendingFixtures' = <<>>
    /\ effectsDue' = FALSE
    /\ Commit(Unsubscribe(Cur, AppListener))
    /\ ev' = "other"
    /\ UNCHANGED <<build, now, ticks, lastCall, sendState, fixtures,
                   isBridgeConnected, fixturesRef, layoutDeps, sampleMap, totalLeds,
                   srcFrame, remapped>>

\* App imports sendDmxData: the first revision of the module.
AppInit ==
    /\ version = 1
    /\ socket = NoSocket
    /\ activeUrl = NoUrl
    /\ lastSendTime = 0
    /\ sequence = 0
    /\ reconnectTimer = NoTimer
    /\ isConnected = FALSE
    /\ socks = <<>>
    /\ timers = <<>>
    /\ now = 0
    /\ ticks = 0
    /\ reusablePacket = [i \in 1..(ArtNetHeaderLen + UniverseSize) |-> 0]
    /\ lastCall = "none"
    /\ ev = "other"
    /\ req = [input |-> <<>>, useWsBridge |-> FALSE, artNetIp |-> "", artNetPort |-> 0]
    /\ wire = <<>>
    /\ tx = <<>>
    /\ dropped = FALSE
    /\ listeners = {}
    /\ heard = <<>>
    /\ retired = {}
    /\ called = {}
    /\ keepFrames = FALSE
    /\ frames = <<>>
    /\ Unmounted
    /\ Idle

\* The pipeline without the editor: sample ticks, commits, transmit ticks and
\* the events of the bridge socket.
AppNext ==
    \/ Mount
    \/ \E frame \in SourceFrames : SampleTick(frame, TRUE)
    \/ Render
    \/ Effects
    \/ LoopTick
    \/ Unmount
    \/ \E id \in DOMAIN socks : SocketOpens(id)
    \/ \E id \in DOMAIN socks : SocketClosed(id)
    \/ \E d \in AppDeltas : Advance(d)

AppSpec == AppInit /\ [][AppNext]_vars

\* The editor and the sampler: edits, sample ticks, commits and effects while
\* the bridge socket is still connecting (the loop sends nothing).
StageNext ==
    \/ Mount
    \/ \E frame \in SourceFrames : SampleTick(frame, TRUE)
    \/ \E u \in Updates : Edit("fix-1", u)
    \/ Render
    \/ Effects
    \/ LoopTick
    \/ Unmount

StageSpec == AppInit /\ [][StageNext]_vars

\* The mapper and the sampler over loaded projects: fixture lists of any
\* length, sources that are ready or not.
MapNext ==
    \/ Mount
    \/ \E list \in ProjectLists : LoadProject(list)
    \/ \E frame \in SourceFrames, ready \in BOOLEAN : SampleTick(frame, ready)
    \/ Render
    \/ Effects

MapSpec == AppInit /\ [][MapNext]_vars

\* The colour conversions over source colours and brightness settings.
ColorNext ==
    \/ \E r \in Bytes, g \in Bytes, b \in Bytes : CallRgbToRgbw(r, g, b)
    \/ \E value \in BrightnessValues : SetBrightness(value)
    \/ \E r \in Bytes, g \in Bytes, b \in Bytes : Shade(r, g, b)

ColorSpec == AppInit /\ [][ColorNext]_vars

\* ------------------------------------------------ relay (artlux-bridge.cjs)
MaxInFlight == 2         \* messages sent to the relay and not yet handled

\* JSON.stringify of an envelope: a text that parses to an object with the
\* four members; the array of numbers is written element by element.
JsonStringify(envelope) ==
    [kind |-> "json",
     value |-> [type |-> envelope.type, host |-> envelope.host, port |-> envelope.port,
                data |-> [i \in 1..Len(envelope.data) |-> envelope.data[i]]]]

\* The messages socket.send delivered: those of the envelopes whose call did
\* not throw.
RECURSIVE Delivered(_, _, _)
Delivered(envelopes, fails, k) ==
    IF k > Len(envelopes) THEN <<>>
    ELSE (IF k \in fails THEN <<>> ELSE <<JsonStringify(envelopes[k])>>)
         \o Delivered(envelopes, fails, k + 1)

\* Mutant: Buffer.from keeps seven bits of each number.
BufferFrom_sevenBits(data) == [i \in 1..Len(data) |-> data[i] % 128]

\* Buffer.from(array): each number as one byte, & 255.
BufferFrom(data) == [i \in 1..Len(data) |-> data[i] % 256]

\* `payload.type === 'broadcast-artnet' && payload.data && payload.host && payload.port`
Accepted(payload) ==
    /\ "type" \in DOMAIN payload /\ payload.type = "broadcast-artnet"
    /\ "data" \in DOMAIN payload
    /\ "host" \in DOMAIN payload /\ payload.host # ""
    /\ "port" \in DOMAIN payload /\ payload.port # 0

\* ws.on('message'): the datagrams the handler sends for `message`.  JSON.parse
\* throws for a text that is no JSON, udpSocket.send throws once the socket
\* is closed; the catch logs either.
Forwarded(message, open) ==
    IF message.kind # "json" THEN <<>>
    ELSE IF ~Accepted(message.value) THEN <<>>
    ELSE IF ~open THEN <<>>
    ELSE <<[host |-> message.value.host, port |-> message.value.port,
            bytes |-> BufferFrom(message.value.data)]>>

\* Settings the editor can produce: the IP field emptied, the port set to 0.
NoHost == [Enabled EXCEPT !.artNetIp = ""]
NoPort == [Enabled EXCEPT !.artNetPort = 0]
RelayRequests == { <<Strip>> } \X {Enabled, NoHost, NoPort}

\* Messages of other clients: no JSON, another type, members missing.
ForeignMessages ==
    { [kind |-> "text"],
      [kind |-> "json", value |-> [type |-> "hello"]],
      [kind |-> "json", value |-> [type |-> "broadcast-artnet", port |-> 6454,
                                   data |-> <<1, 2>>]] }

\* The application sends a frame over the bridge socket; the relay receives
\* the messages socket.send delivered, in order.
BridgeSend(fs, settings, fails) ==
    /\ Len(channel) < MaxInFlight
    /\ SendDmxData(fs, settings, fails)
    /\ channel' = channel \o Delivered(wire', fails, 1)
    /\ Len(channel') <= MaxInFlight
    /\ UNCHANGED <<ui, udpOpen, datagrams, handled>>

\* Another client of the relay sends message m.
ForeignSend(m) ==
    /\ Len(channel) < MaxInFlight
    /\ channel' = Append(channel, m)
    /\ ev' = "other"
    /\ called' = {}
    /\ UNCHANGED <<version, keepFrames, shader, udpOpen, datagrams, handled, ui, life, now,
                   ticks, lastCall, sendState>>

\* The relay's message handler runs for the oldest message.
RelayOnMessage ==
    /\ channel # <<>>
    /\ channel' = Tail(channel)
    /\ handled' = <<Head(channel)>>
    /\ datagrams' = Forwarded(Head(channel), udpOpen)
    /\ ev' = "other"
    /\ called' = {}
    /\ UNCHANGED <<version, keepFrames, shader, udpOpen, ui, life, now, ticks, lastCall,
                   sendState>>

\* udpSocket.on('error'): the handler closes the UDP socket.
UdpError ==
    /\ udpOpen
    /\ udpOpen' = FALSE
    /\ ev' = "other"
    /\ called' = {}
    /\ UNCHANGED <<version, keepFrames, shader, channel, datagrams, handled, ui, life, now,
                   ticks, lastCall, sendState>>

\* The first revision with the bridge socket connecting, as after App's
\* connection effect.
RelayInit ==
    /\ version = 1
    /\ socket = 1
    /\ activeUrl = BridgeUrl
    /\ lastSendTime = 0
    /\ sequence = 0
    /\ reconnectTimer = NoTimer
    /\ isConnected = FALSE
    /\ socks = (1 :> [readyState |-> "CONNECTING", onclose |-> TRUE,
                      url |-> BridgeUrl, bufferedAmount |-> 0])
    /\ timers = <<>>
    /\ now = 0
    /\ ticks = 0
    /\ reusablePacket = [i \in 1..(ArtNetHeaderLen + UniverseSize) |-> 0]
    /\ lastCall = "connect"
    /\ ev = "other"
    /\ req = [input |-> <<>>, useWsBridge |-> FALSE, artNetIp |-> "", artNetPort |-> 0]
    /\ wire = <<>>
    /\ tx = <<>>
    /\ dropped = FALSE
    /\ listeners = {AppListener}
    /\ heard = (AppListener :> FALSE)
    /\ retired = {}
    /\ called = {}
    /\ keepFrames = FALSE
    /\ frames = <<>>
    /\ Unmounted
    /\ Idle

RelayNext ==
    \/ \E id \in DOMAIN socks : SocketOpens(id)
    \/ \E d \in FrameDeltas : Advance(d)
    \/ \E r \in RelayRequests : BridgeSend(r[1], r[2], {})
    \/ \E m \in ForeignMessages : ForeignSend(m)
    \/ RelayOnMessage
    \/ UdpError

RelaySpec == RelayInit /\ [][RelayNext]_vars

TypeOK ==
    /\ socket \in {NoSocket} \cup DOMAIN socks
    /\ reconnectTimer \in {NoTimer} \cup DOMAIN timers
    /\ sequence \in 0..255
    /\ isConnected \in BOOLEAN

\* ------------------------------------------------------------- claims
\* C1: at most one reconnect timer is pending in every reachable state, and a
\* pending one is the one reconnectTimer holds; close events never add a second.
OneReconnectTimer ==
    /\ Cardinality(DOMAIN timers) <= 1
    /\ reconnectTimer # NoTimer => DOMAIN timers = {reconnectTimer}

\* C1 witness: a close event under reconnect intent has scheduled the timer.
OneReconnectTimerWitness ==
    /\ ev = "close"
    /\ activeUrl # NoUrl
    /\ Cardinality(DOMAIN timers) = 1

\* C2: as long as disconnectBridge() is the application's last call, activeUrl
\* is null, no timer is pending, there is no current socket and every socket
\* object left is a detached one on its way to CLOSED, whatever close or timer
\* events have happened since.
FullDisconnectClearsIntent ==
    lastCall = "disconnect" =>
        /\ activeUrl = NoUrl
        /\ reconnectTimer = NoTimer
        /\ DOMAIN timers = {}
        /\ socket = NoSocket
        /\ \A id \in DOMAIN socks : socks[id].readyState = "CLOSING"

\* C2 witness: disconnectBridge() was called on a live connection, whose socket
\* still has its close event to come.
FullDisconnectWitness ==
    /\ lastCall = "disconnect"
    /\ DOMAIN socks # {}

\* C3: a close event of the current socket leaves the intent and schedules the
\* one timer, due ReconnectDelay later; the timeout runs no earlier than that,
\* takes the timer away and leaves a new CONNECTING socket for the same activeUrl.
ReconnectAfterClose ==
    [][ /\ ev' = "close" =>
            /\ socket' = NoSocket
            /\ activeUrl' = activeUrl /\ activeUrl # NoUrl
            /\ reconnectTimer' # NoTimer
            /\ DOMAIN timers' = {reconnectTimer'}
            /\ timers'[reconnectTimer'] = now + ReconnectDelay
        /\ ev' = "timer" =>
            /\ reconnectTimer # NoTimer
            /\ now >= timers[reconnectTimer]
            /\ reconnectTimer' = NoTimer
            /\ DOMAIN timers' = {}
            /\ activeUrl' = activeUrl
            /\ socket' # NoSocket
            /\ socket' \notin DOMAIN socks
            /\ socks'[socket'].readyState = "CONNECTING"
            /\ socks'[socket'].url = activeUrl
      ]_vars

\* C3 witness: the reconnect timeout has just run and a socket is connecting.
ReconnectAfterCloseWitness ==
    /\ ev = "timer"
    /\ socket # NoSocket
    /\ socks[socket].readyState = "CONNECTING"
    /\ now >= ReconnectDelay

\* C4 as stated: while a connection is desired and the transport is not
\* connected there is a current socket or a pending reconnect timer.
RetriesWhileDesired ==
    (lastCall = "connect" /\ ~isConnected) =>
        (socket # NoSocket \/ reconnectTimer # NoTimer)

\* What the gates of a send request see, read from the state before the step
\* (the step changes neither the socket nor the clock).
IsOpen == socket # NoSocket /\ socks[socket].readyState = "OPEN"
Buffered == IF socket # NoSocket THEN socks[socket].bufferedAmount ELSE 0

\* The universe a packet announces in bytes 14-15.
PacketUniverse(packet) == packet[15] + (256 * packet[16])

\* A fixture sendDmxData multiplexes: colorData present and of length ledCount.
Contributes(f) == f.colorData # <<>> /\ Len(f.colorData) = f.ledCount

\* Absolute channel addresses of a fixture.
Addresses(f) ==
    { (f.universe * 512) + (f.startAddress - 1) + k : k \in 0..((4 * f.ledCount) - 1) }

\* The universes of the frame of a request.
FrameUniverses(v, input) ==
    IF v = 2 THEN DOMAIN input
    ELSE { a \div 512 : a \in UNION { Addresses(input[k]) :
                                        k \in { j \in 1..Len(input) : Contributes(input[j]) } } }

\* C5 as stated: a send request that finds more than 64 KiB buffered passes
\* nothing to socket.send.
BackpressureDropsFrame ==
    (ev = "send" /\ socket # NoSocket /\ Buffered > 65536) => wire = <<>>

\* C6: whatever was dropped before, a send request made with the bridge
\* enabled, the socket OPEN, at most 64 KiB buffered and at least 22 ms since
\* lastSendTime passes exactly one packet per universe of its frame to
\* socket.send, in ascending universe order.
SendingResumes ==
    [][ ( /\ ev' = "send"
          /\ req'.useWsBridge
          /\ IsOpen
          /\ Buffered <= 65536
          /\ now - lastSendTime >= 22 )
        => /\ Len(wire') = Cardinality(FrameUniverses(version, req'.input))
           /\ { PacketUniverse(wire'[k].data) : k \in 1..Len(wire') }
                = FrameUniverses(version, req'.input)
           /\ lastSendTime' = now
      ]_vars

\* C6 witness: after a backpressure drop a request has sent its packets.
SendingResumesWitness ==
    /\ dropped
    /\ ev = "send"
    /\ Len(wire) >= 2
    /\ Buffered = 65536

\* C7: two consecutive transmitted frames are at least 22 ms apart, and a
\* request less than 22 ms after lastSendTime sends nothing and leaves the
\* record of transmitted frames alone.
MinimumSendInterval ==
    [][ /\ Len(tx') = 2 => tx'[2].time - tx'[1].time >= 22
        /\ (ev' = "send" /\ now - lastSendTime < 22) =>
              (wire' = <<>> /\ tx' = tx /\ lastSendTime' = lastSendTime)
      ]_vars

\* C7 witness: two frames exactly 22 ms apart, then a request 21 ms later that
\* sent nothing.
MinimumSendIntervalWitness ==
    /\ Len(tx) = 2
    /\ tx[2].time - tx[1].time = 22
    /\ ev = "send"
    /\ IsOpen /\ req.useWsBridge
    /\ now - lastSendTime = 21
    /\ wire = <<>>

\* C8: the sequence byte is in 0..255, each transmitted frame carries the
\* sequence of the frame before plus one modulo 256, and all packets of the
\* frame just sent carry that byte.
SequencePerFrame ==
    /\ sequence \in 0..255
    /\ Len(tx) >= 1 => tx[Len(tx)].seq = sequence
    /\ Len(tx) = 2 => tx[2].seq = (tx[1].seq + 1) % 256
    /\ ev = "send" => \A k \in 1..Len(wire) : wire[k].data[13] = sequence

\* C8 witness: the frame after the one with sequence 255 went out with
\* sequence 0 in each of its packets.
SequencePerFrameWitness ==
    /\ Len(tx) = 2
    /\ tx[1].seq = 255
    /\ tx[2].seq = 0
    /\ ev = "send"
    /\ Len(wire) >= 2
    /\ \A k \in 1..Len(wire) : wire[k].data[13] = 0

\* The encoder inputs of the frame just sent: universe keys in sending order
\* and the data of each.
SentKeys == Ascending(FrameUniverses(version, req.input))
SentData(u) == IF version = 2 THEN req.input[u] ELSE CurrentFrameData(req.input)[u]

\* C9: every packet sent for universe u with n data bytes has 18 + n bytes:
\* the 12 header bytes, sequence, 0, u mod 256, u div 256, n div 256, n mod 256,
\* then the data unchanged.
PacketLayout ==
    (ev = "send" /\ wire # <<>>) =>
        /\ Len(wire) = Len(SentKeys)
        /\ \A k \in 1..Len(wire) :
              LET u == SentKeys[k]
                  n == Len(SentData(u))
              IN  wire[k].data =
                    <<65, 114, 116, 45, 78, 101, 116, 0, 0, 80, 0, 14>>
                    \o <<sequence, 0, u % 256, u \div 256, n \div 256, n % 256>>
                    \o SentData(u)

\* C9 witness: universe 3 with data [10, 20].
PacketLayoutWitness ==
    /\ ev = "send"
    /\ version = 2
    /\ Len(wire) = 1
    /\ wire[1].data = <<65, 114, 116, 45, 78, 101, 116, 0, 0, 80, 0, 14,
                        sequence, 0, 3, 0, 0, 2, 10, 20>>

\* Value of channel c (0 = r .. 3 = w) of a colour.
ChannelValue(color, c) ==
    IF c = 0 THEN color.r ELSE IF c = 1 THEN color.g ELSE IF c = 2 THEN color.b ELSE color.w

\* The byte a sent frame carries for absolute address a.
SentChannel(a) ==
    LET k == CHOOSE j \in 1..Len(wire) : PacketUniverse(wire[j].data) = a \div 512
    IN  wire[k].data[18 + (a % 512) + 1]

\* C10: in a frame sendDmxData has sent, channel c of LED i of every
\* contributing fixture is at index a mod 512 of universe a div 512,
\* a = universe*512 + (startAddress-1) + i*4 + c, unless a fixture later in the
\* list covers the same address.
ChannelAddressing ==
    (ev = "send" /\ version = 1 /\ wire # <<>>) =>
        \A f \in 1..Len(req.input) :
            Contributes(req.input[f]) =>
                \A i \in 0..(req.input[f].ledCount - 1), c \in 0..3 :
                    LET fx == req.input[f]
                        a == (fx.universe * 512) + (fx.startAddress - 1) + (i * 4) + c
                        later == { g \in (f + 1)..Len(req.input) :
                                     Contributes(req.input[g]) /\ a \in Addresses(req.input[g]) }
                    IN  later = {} =>
                          /\ \E j \in 1..Len(wire) : PacketUniverse(wire[j].data) = a \div 512
                          /\ SentChannel(a) = ChannelValue(fx.colorData[i + 1], c)

\* C10 witness: universe 0, startAddress 511, ledCount 1: r, g at indices 510,
\* 511 of universe 0 and b, w at indices 0, 1 of universe 1.
ChannelAddressingWitness ==
    /\ ev = "send"
    /\ version = 1
    /\ req.input = <<Split>>
    /\ Len(wire) = 2
    /\ PacketUniverse(wire[1].data) = 0
    /\ wire[1].data[18 + 511] = Red.r /\ wire[1].data[18 + 512] = Red.g
    /\ PacketUniverse(wire[2].data) = 1
    /\ wire[2].data[18 + 1] = Red.b /\ wire[2].data[18 + 2] = Red.w

\* C16 as stated: the status is true only while the current socket is OPEN.
StatusOnlyWhileOpen ==
    isConnected => (socket # NoSocket /\ socks[socket].readyState = "OPEN")

\* C16: the status is true only while the current socket has opened and its
\* close event is still to come (readyState OPEN or CLOSING); it turns true
\* only in the open event of the current socket; a disconnectBridge, called by
\* the application or inside a connectToBridge that replaces the socket, leaves
\* it false.
StatusFollowsSocket ==
    [][ /\ isConnected' =>
            (socket' # NoSocket /\ socks'[socket'].readyState \in {"OPEN", "CLOSING"})
        /\ (~isConnected /\ isConnected') =>
            /\ socket # NoSocket /\ socket' = socket
            /\ socks[socket].readyState = "CONNECTING"
            /\ socks'[socket].readyState = "OPEN"
        /\ lastCall' = "disconnect" => ~isConnected'
        /\ (socket' # NoSocket /\ socket' # socket) => ~isConnected'
        /\ \A l \in listeners' : heard'[l] = isConnected'
      ]_vars

\* C16 witness: listeners hold true while the peer's closing handshake of the
\* current socket is under way.
StatusFollowsSocketWitness ==
    /\ isConnected
    /\ socket # NoSocket
    /\ socks[socket].readyState = "CLOSING"
    /\ listeners # {}
    /\ \A l \in listeners : heard[l]

\* C17: a listener is called with the current flag in the step that registers
\* it; the value last delivered to each registered listener is the connected
\* flag; no step calls a listener whose unsubscribe function has been called.
ListenersInSync ==
    [][ /\ \A l \in listeners' \ listeners : l \in called' /\ heard'[l] = isConnected
        /\ DOMAIN heard' = listeners'
        /\ \A l \in listeners' : heard'[l] = isConnected'
        /\ called' \cap retired' = {}
        /\ called' \subseteq listeners'
      ]_vars

\* C17 witness: after App's listener unsubscribed, an open event was delivered
\* to the inspector's listener alone.
ListenersInSyncWitness ==
    /\ AppListener \in retired
    /\ listeners = {InspectorListener}
    /\ called = {InspectorListener}
    /\ heard[InspectorListener]
    /\ isConnected

\* A send request that passes the gates of its revision: bridge enabled, socket
\* OPEN, (second revision) at most 64 KiB buffered, 22 ms since lastSendTime.
Passes ==
    /\ ev' = "send"
    /\ req'.useWsBridge
    /\ IsOpen
    /\ version = 2 => Buffered <= 65536
    /\ now - lastSendTime >= 22

\* The absolute addresses the contributing fixtures of a list write.
Written(input) ==
    UNION { Addresses(input[k]) : k \in { j \in 1..Len(input) : Contributes(input[j]) } }

\* C11: a frame sendDmxData transmits has exactly one packet for each universe
\* a contributing fixture writes a channel of and none for any other universe,
\* and universe buffers exist for those universes only.
OnePacketPerTouchedUniverse ==
    [][ (version = 1 /\ Passes) =>
            LET touched == { a \div 512 : a \in Written(req'.input) }
            IN  /\ Len(wire') = Cardinality(touched)
                /\ { PacketUniverse(wire'[k].data) : k \in 1..Len(wire') } = touched
                /\ DOMAIN frames'[Len(frames')].data = touched
      ]_vars

\* C11 witness: fixtures in universes 255 and 1, each crossing into the next
\* universe: packets for 1, 2, 255 and 256 and for nothing else.
OnePacketPerTouchedUniverseWitness ==
    /\ ev = "send"
    /\ version = 1
    /\ req.input = <<High, Edge>>
    /\ Len(wire) = 4
    /\ { PacketUniverse(wire[k].data) : k \in 1..Len(wire) } = {1, 2, 255, 256}
    /\ DOMAIN frames[Len(frames)].data = {1, 2, 255, 256}

\* C12: in a frame sendDmxData transmits, every channel of a sent universe
\* that no contributing fixture of this frame writes is 0, and a universe of
\* the frame transmitted before that this frame does not touch gets no packet.
NothingCarriedOver ==
    [][ (version = 1 /\ Passes) =>
            /\ \A k \in 1..Len(wire') :
                  \A ch \in 0..511 :
                      ((PacketUniverse(wire'[k].data) * 512) + ch) \notin Written(req'.input)
                          => wire'[k].data[18 + ch + 1] = 0
            /\ frames # <<>> =>
                  \A u \in DOMAIN frames[Len(frames)].data :
                      u \notin { a \div 512 : a \in Written(req'.input) }
                          => \A k \in 1..Len(wire') : PacketUniverse(wire'[k].data) # u
      ]_vars

\* C12 witness: the frame before wrote 200 to channel 511 of universe 1 and
\* touched universe 255; this frame writes channels 0 and 1 of universe 1 only:
\* channel 511 of universe 1 is 0 and universe 255 is not sent.
NothingCarriedOverWitness ==
    /\ ev = "send"
    /\ version = 1
    /\ wire # <<>>
    /\ Len(frames) = 2
    /\ {1, 255} \subseteq DOMAIN frames[1].data
    /\ frames[1].data[1][512] = 200
    /\ req.input = <<Short, Split>>
    /\ \E k \in 1..Len(wire) :
          PacketUniverse(wire[k].data) = 1 /\ wire[k].data[18 + 512] = 0
    /\ \A k \in 1..Len(wire) : PacketUniverse(wire[k].data) # 255

\* C13: a frame sendDmxData transmits is the frame of the list without the
\* fixtures whose colorData is missing or not ledCount long: the same
\* universes, the same bytes.
MalformedFixtureSkipped ==
    [][ (version = 1 /\ Passes) =>
            LET expected == CurrentFrameData(SelectSeq(req'.input, Contributes))
                keys == Ascending(DOMAIN expected)
            IN  /\ Len(wire') = Len(keys)
                /\ \A k \in 1..Len(wire') :
                      /\ PacketUniverse(wire'[k].data) = keys[k]
                      /\ SubSeq(wire'[k].data, 19, 18 + 512) = expected[keys[k]]
      ]_vars

\* C13 witness: a fixture of 2 LEDs with 1 colour at address 1 of universe 0
\* before a well-formed one: channel 0 of universe 0 stays 0, the well-formed
\* fixture's r is at channel 510.
MalformedFixtureSkippedWitness ==
    /\ ev = "send"
    /\ version = 1
    /\ req.input = <<Short, Split>>
    /\ ~Contributes(req.input[1])
    /\ Len(wire) = 2
    /\ PacketUniverse(wire[1].data) = 0
    /\ wire[1].data[18 + 1] = 0
    /\ wire[1].data[18 + 511] = Red.r

\* C14: whichever socket.send calls throw, a request that passes the gates
\* returns normally: every universe's packet has been passed to socket.send,
\* lastSendTime and sequence are updated, the connection state is untouched;
\* this holds for every request, so also for those after a failure.
SendFailureContained ==
    [][ Passes =>
            /\ Len(wire') = Cardinality(FrameUniverses(version, req'.input))
            /\ { PacketUniverse(wire'[k].data) : k \in 1..Len(wire') }
                 = FrameUniverses(version, req'.input)
            /\ frames'[Len(frames')].thrown \subseteq 1..Len(wire')
            /\ lastSendTime' = now
            /\ sequence' = (sequence + 1) % 256
            /\ UNCHANGED <<socket, activeUrl, reconnectTimer, isConnected, socks, timers>>
      ]_vars

\* C14 witness: the first of several packets of a frame threw, and the next
\* frame went out complete without a throw.
SendFailureContainedWitness ==
    /\ ev = "send"
    /\ Len(frames) = 2
    /\ frames[1].thrown = {1}
    /\ Cardinality(DOMAIN frames[1].data) >= 2
    /\ frames[2].thrown = {}
    /\ Len(wire) >= 2
    /\ Len(wire) = Cardinality(DOMAIN frames[2].data)

\* C15 as stated: a request dropped for backpressure, or one of whose packets
\* socket.send threw for, has called every registered status listener.
TransportErrorReported ==
    ( /\ ev = "send"
      /\ \/ version = 2 /\ req.useWsBridge /\ IsOpen /\ Buffered > 65536
         \/ wire # <<>> /\ frames # <<>> /\ frames[Len(frames)].thrown # {} )
    => (listeners # {} /\ listeners \subseteq called)

\* ------------------------------------------------------------ the application
\* The colorData of each fixture of a list.
ColorData(fs) == [k \in 1..Len(fs) |-> fs[k].colorData]

\* C18 as stated: the packets a transmit tick of the mounted application sends
\* are built from the colorData of the fixtures committed last at that tick.
SendsLastCommitted ==
    (mounted = "yes" /\ ev = "send" /\ wire # <<>>)
    => /\ ColorData(req.input) = ColorData(fixtures)
       /\ wire = [k \in 1..Len(wire) |->
                    Envelope(Enabled,
                             BuildArtNetPacket(sequence,
                                               Ascending(DOMAIN CurrentFrameData(fixtures))[k],
                                               CurrentFrameData(fixtures)[
                                                   Ascending(DOMAIN CurrentFrameData(fixtures))[k]]))]

\* C19 as stated: once the application is torn down no bridge socket is open
\* or connecting and no reconnect timer is pending.
TornDownClosed ==
    mounted = "gone"
    => /\ \A id \in DOMAIN socks : socks[id].readyState \notin {"CONNECTING", "OPEN"}
       /\ reconnectTimer = NoTimer
       /\ DOMAIN timers = {}

\* The geometry and LED count of each fixture of a list.
Geometry(fs) ==
    [k \in 1..Len(fs) |->
        <<fs[k].x, fs[k].y, fs[k].width, fs[k].height, fs[k].rotation, fs[k].ledCount>>]

\* The step that runs the effects of a commit; fixturesRef still holds the
\* fixtures of the commit before.
EffectsStep == mounted = "yes" /\ effectsDue /\ ~effectsDue' /\ mounted' = "yes"

\* C20: while the application is mounted only the effects of a commit touch
\* the sample map: a sample tick, with its onUpdateFixtures, and every other
\* step leave it; the effects of a commit whose fixtures have the geometry and
\* LED counts of the commit before (only colorData, universe or the like
\* changed) do not call updateMapping and leave the map; the effects of a
\* commit that changed x, y, width, height, rotation or ledCount of a fixture
\* call updateMapping, and the map is the one of the committed fixtures.
MapFollowsGeometry ==
    [][ /\ (mounted = "yes" /\ ~EffectsStep) => UNCHANGED <<sampleMap, totalLeds, remapped>>
        /\ (EffectsStep /\ Geometry(fixtures) = Geometry(fixturesRef))
             => ~remapped' /\ UNCHANGED <<sampleMap, totalLeds>>
        /\ (EffectsStep /\ Geometry(fixtures) # Geometry(fixturesRef))
             => /\ remapped'
                /\ sampleMap' = MapCoords(fixtures)
                /\ totalLeds' = SumLeds(fixtures)
      ]_vars

\* C20 witness: the fixture was moved and the map rebuilt for it; then a sample
\* tick of the second source frame was committed, with new colorData only, and
\* its effects ran without updateMapping.
MapFollowsGeometryWitness ==
    /\ mounted = "yes"
    /\ ~effectsDue
    /\ fixtures[1].x = 16
    /\ sampleMap = MapCoords(fixtures)
    /\ srcFrame = 2
    /\ Len(fixtures[1].colorData) = fixtures[1].ledCount
    /\ fixtures[1].colorData[1].w = 2
    /\ fixturesRef = fixtures
    /\ ~remapped

\* The LEDs of the fixtures before fixture k of a list.
LedsBefore(fs, k) == SumLeds(SubSeq(fs, 1, k - 1))

\* The step that calls updateMapping(fixtures): the mount, or effects that remap.
MappingStep == (mounted = "no" /\ mounted' = "yes") \/ (EffectsStep /\ remapped')

\* The colours a sample tick gave fixture f, in LED order.
InLedOrder(f) == IF f.reverse THEN Reverse(f.colorData) ELSE f.colorData

\* C21: updateMapping(fixtures) sets totalLeds to the sum of ledCount and, for
\* a list with LEDs, leaves a map of exactly that many coordinates in which
\* LED i of fixture k sits at position (LEDs of the fixtures before k) + i;
\* for a list without LEDs the map texture is not touched and nothing is read.
\* The mapper always counts the LEDs of fixturesRef, and a sample tick gives
\* fixture k of fixturesRef the values of the RGBW buffer from position
\* (LEDs of the fixtures before k) on, one per LED.
MapInListOrder ==
    [][ /\ MappingStep =>
            /\ totalLeds' = SumLeds(fixtures)
            /\ SumLeds(fixtures) > 0 =>
                  /\ Len(sampleMap') = SumLeds(fixtures)
                  /\ \A k \in 1..Len(fixtures) : \A i \in 0..(fixtures[k].ledCount - 1) :
                        sampleMap'[LedsBefore(fixtures, k) + i + 1] = SampleCoord(fixtures[k], i)
            /\ SumLeds(fixtures) = 0 => sampleMap' = sampleMap
        /\ mounted' = "yes" => totalLeds' = SumLeds(fixturesRef')
        /\ (ev' \in {"sample", "unready"} /\ totalLeds = 0) => pendingFixtures' = pendingFixtures
        /\ (ev' \in {"sample", "unready"} /\ totalLeds > 0) =>
              /\ Len(pendingFixtures') = 1
              /\ Len(pendingFixtures'[1]) = Len(fixturesRef)
              /\ \A k \in 1..Len(fixturesRef) :
                    InLedOrder(pendingFixtures'[1][k])
                      = [i \in 1..fixturesRef[k].ledCount |->
                            Pixel(srcFrame', sampleMap[LedsBefore(fixturesRef, k) + i])]
      ]_vars

\* C21 witness: a list of three fixtures, the middle one without LEDs, was
\* mapped and sampled: the third fixture got the second and third value.
MapInListOrderWitness ==
    /\ ev = "sample"
    /\ Len(fixturesRef) = 3
    /\ fixturesRef[2].ledCount = 0
    /\ fixturesRef[3].ledCount >= 2
    /\ Len(sampleMap) = totalLeds
    /\ totalLeds = 1 + fixturesRef[3].ledCount
    /\ pendingFixtures # <<>>
    /\ pendingFixtures[1][3].colorData[1] = Pixel(srcFrame, sampleMap[2])
    /\ pendingFixtures[1][1].colorData[1] # pendingFixtures[1][3].colorData[1]

\* C22 as stated: a tick whose source is not ready samples nothing and calls
\* no onUpdateFixtures: the pending and the committed fixtures stay as they were.
UnreadyTickSkipped ==
    [][ ev' = "unready" => UNCHANGED <<pendingFixtures, fixtures>> ]_vars

\* The value the shader gives LED i (from 1) of fixture k of fixturesRef in
\* the sample tick that is the next step.
Sampled(k, i) == Pixel(srcFrame', sampleMap[LedsBefore(fixturesRef, k) + i])

\* The write sendDmxData makes for component v of the slot at address a.
SlotWrite(a, v) == <<a \div UniverseSize, a % UniverseSize, v>>

\* C23: a sample tick gives a fixture with reverse = false the sample of LED i
\* as colorData[i] and a fixture with reverse = true the sample of LED
\* ledCount-1-i, value for value, so two fixtures of the same geometry that
\* differ in reverse get mirrored lists; sendDmxData then writes colorData in
\* order, so DMX slot i of a reversed fixture carries the four values of LED
\* ledCount-1-i at the addresses of slot i; reversing twice gives the list back.
ReverseMirrors ==
    [][ (ev' \in {"sample", "unready"} /\ totalLeds > 0) =>
            \A k \in 1..Len(fixturesRef) :
                LET f == pendingFixtures'[1][k]
                    n == f.ledCount
                    led(i) == IF f.reverse THEN Sampled(k, n + 1 - i) ELSE Sampled(k, i)
                    g == (f.universe * UniverseSize) + (f.startAddress - 1)
                    ws == FixtureWrites(f)
                IN  /\ Len(f.colorData) = n
                    /\ \A i \in 1..n : f.colorData[i] = led(i)
                    /\ Reverse(Reverse(f.colorData)) = f.colorData
                    /\ \A j \in 1..Len(fixturesRef) :
                          LET h == pendingFixtures'[1][j]
                          IN  (Geometry(<<h>>) = Geometry(<<f>>) /\ h.reverse # f.reverse)
                              => \A i \in 1..n : f.colorData[i] = h.colorData[n + 1 - i]
                    /\ n > 0 =>
                          /\ Len(ws) = 4 * n
                          /\ \A i \in 1..n :
                                /\ ws[(4 * (i - 1)) + 1] = SlotWrite(g + (4 * (i - 1)), led(i).r)
                                /\ ws[(4 * (i - 1)) + 2] = SlotWrite(g + (4 * (i - 1)) + 1, led(i).g)
                                /\ ws[(4 * (i - 1)) + 3] = SlotWrite(g + (4 * (i - 1)) + 2, led(i).b)
                                /\ ws[(4 * (i - 1)) + 4] = SlotWrite(g + (4 * (i - 1)) + 3, led(i).w)
      ]_vars

\* C23 witness: a sample tick of a drawn frame gave the reversed strip and the
\* plain strip of the same geometry mirrored lists of distinct values.
ReverseMirrorsWitness ==
    /\ ev = "sample"
    /\ pendingFixtures # <<>>
    /\ Len(pendingFixtures[1]) = 2
    /\ pendingFixtures[1][1].reverse = FALSE
    /\ pendingFixtures[1][2].reverse = TRUE
    /\ Len(pendingFixtures[1][2].colorData) >= 2
    /\ pendingFixtures[1][2].colorData[1] # pendingFixtures[1][2].colorData[2]
    /\ pendingFixtures[1][2].colorData = Reverse(pendingFixtures[1][1].colorData)

\* The least of the three channels of a colour <<r, g, b>>.
Least(t) == CHOOSE m \in {t[1], t[2], t[3]} : \A c \in {t[1], t[2], t[3]} : m <= c

\* An 8-bit value that is the product of `pre` and the brightness bq (in
\* quarters), to the nearest integer.
Scaled(out, pre, bq) ==
    /\ out \in 0..255
    /\ 2 * (Full * out - pre * bq) <= Full
    /\ 2 * (pre * bq - Full * out) <= Full

\* C24: rgbToRgbw gives w' = min(r, g, b) and r - w', g - w', b - w'; the
\* shader gives these four values times the brightness, which setBrightness
\* keeps in [0, 1]; every output is in 0..255 and one of r', g', b' is 0;
\* (200, 150, 150) gives (50, 0, 0, 150), and (25, 0, 0, 75) at brightness 0.5.
MinSubtractionThenBrightness ==
    [][ /\ brightness' \in 0..Full
        /\ (brightness' = brightness /\ via' # "none") =>
              LET t == texel'
                  m == Least(t)
                  out == rgbw'
              IN  /\ via' = "js" =>
                        out = [r |-> t[1] - m, g |-> t[2] - m, b |-> t[3] - m, w |-> m]
                  /\ via' = "gpu" =>
                        /\ Scaled(out.r, t[1] - m, brightness)
                        /\ Scaled(out.g, t[2] - m, brightness)
                        /\ Scaled(out.b, t[3] - m, brightness)
                        /\ Scaled(out.w, m, brightness)
                  /\ {out.r, out.g, out.b, out.w} \subseteq 0..255
                  /\ 0 \in {out.r, out.g, out.b}
                  /\ (t = <<200, 150, 150>> /\ (via' = "js" \/ brightness = Full))
                        => out = [r |-> 50, g |-> 0, b |-> 0, w |-> 150]
                  /\ (t = <<200, 150, 150>> /\ via' = "gpu" /\ brightness = Half)
                        => out = [r |-> 25, g |-> 0, b |-> 0, w |-> 75]
      ]_vars

\* C24 witness: the shader converted (200, 150, 150) at brightness 0.5, set
\* through setBrightness.
MinSubtractionThenBrightnessWitness ==
    /\ via = "gpu"
    /\ texel = <<200, 150, 150>>
    /\ brightness = Half
    /\ rgbw = [r |-> 25, g |-> 0, b |-> 0, w |-> 75]

\* A message that is the JSON text of an envelope of the transport.
FromTransport(m) ==
    /\ m.kind = "json"
    /\ DOMAIN m.value = {"type", "host", "port", "data"}
    /\ m.value.type = "broadcast-artnet"

\* The step in which the relay's handler runs for the oldest message.
RelayStep == channel # <<>> /\ channel' = Tail(channel)

\* The datagram that carries the data of envelope message m to its host:port.
DatagramOf(m) == [host |-> m.value.host, port |-> m.value.port, bytes |-> m.value.data]

EditSurvivesSampling ==
    [][ (mounted = "yes" /\ mounted' = "yes" /\ fixtures[1].x = 16)
            => fixtures'[1].x = 16 ]_vars

\* C27: a reconnect timer is never pending while a socket is held: whenever
\* reconnectTimer is set, socket is null and activeUrl is set.
TimerOnlyWithoutSocket ==
    reconnectTimer # NoTimer => (socket = NoSocket /\ activeUrl # NoUrl)

\* A reconnect is pending after the close of the current socket while a socket
\* detached by an earlier connectToBridge is still closing.
TimerOnlyWithoutSocketWitness ==
    /\ reconnectTimer # NoTimer
    /\ reconnectTimer \in DOMAIN timers
    /\ socks # <<>>

\* connectToBridge(url) finds the socket of url alive: the current socket was
\* created for url and is OPEN or CONNECTING.
Alive(url) ==
    /\ socket # NoSocket
    /\ socks[socket].url = url
    /\ socks[socket].readyState \in {"OPEN", "CONNECTING"}

\* The step changes nothing of the connection: sockets, status, listeners'
\* view, timers; no listener is called.
Untouched ==
    /\ UNCHANGED <<socket, activeUrl, reconnectTimer, isConnected, socks, timers, listeners, heard>>
    /\ called' = {}

\* The step closes the old socket, if there is one, with its onclose removed,
\* and leaves no reconnect pending.
OldSocketDetached ==
    /\ socket # NoSocket =>
         /\ socket \in DOMAIN socks'
         /\ socks'[socket] = [socks[socket] EXCEPT !.readyState = "CLOSING", !.onclose = FALSE]
    /\ \A id \in (DOMAIN socks) \ {socket} : socks'[id] = socks[id]
    /\ reconnectTimer' = NoTimer
    /\ DOMAIN timers' = (DOMAIN timers) \ {reconnectTimer}

\* The step leaves exactly one new socket, for url, as the current one.
OneNewSocket(url) ==
    /\ socket' \notin DOMAIN socks
    /\ DOMAIN socks' = (DOMAIN socks) \cup {socket'}
    /\ socks'[socket'] = [readyState |-> "CONNECTING", onclose |-> TRUE, url |-> url,
                          bufferedAmount |-> 0]
    /\ activeUrl' = url

\* The step is a call of connectToBridge(url); a call leaves the clock and the
\* listener set alone.
ConnectStep(url) ==
    /\ lastCall' = "connect"
    /\ UNCHANGED <<now, listeners>>
    /\ CallConnect(url)

\* C28 as stated: connectToBridge(url) changes nothing when the socket of url
\* is OPEN or CONNECTING; every other call closes the old socket without
\* triggering its reconnect and leaves exactly one new socket.
ConnectIdempotent ==
    [][ \A url \in Urls :
          ConnectStep(url) =>
            IF Alive(url) THEN Untouched
            ELSE OldSocketDetached /\ OneNewSocket(url) ]_vars

\* C28: connectToBridge(url) changes nothing when the socket of url is OPEN or
\* CONNECTING; every other call closes the old socket without triggering its
\* reconnect and, when new WebSocket(url) accepts the URL, leaves exactly one
\* new socket; when the constructor throws, no socket is created and none is
\* held.
ConnectIdempotentOrFresh ==
    [][ \A url \in Urls :
          ConnectStep(url) =>
            IF Alive(url) THEN Untouched
            ELSE /\ OldSocketDetached
                 /\ IF CtorThrows(url)
                    THEN socket' = NoSocket /\ DOMAIN socks' = DOMAIN socks
                    ELSE OneNewSocket(url) ]_vars

\* connectToBridge for another URL has replaced an open socket: the old one is
\* closing without onclose, the new one is connecting.
ConnectIdempotentOrFreshWitness ==
    /\ lastCall = "connect"
    /\ socket # NoSocket
    /\ socks[socket].readyState = "CONNECTING"
    /\ \E id \in DOMAIN socks :
         /\ id # socket
         /\ socks[id].url # socks[socket].url
         /\ socks[id].readyState = "CLOSING"
         /\ ~socks[id].onclose

\* The early returns of a send request: the bridge is disabled, the socket is
\* absent or not open, the second revision finds more than 64 KiB buffered, or
\* less than 22 ms have passed since the last frame.
ReturnsEarly ==
    \/ ~req'.useWsBridge
    \/ ~IsOpen
    \/ (version = 2 /\ Buffered > 65536)
    \/ now - lastSendTime < 22

\* C29: a send request that returns early (bridge disabled, socket not open,
\* buffer above 64 KiB, less than 22 ms since the last frame) passes nothing to
\* socket.send and leaves both sequence and lastSendTime as they were.
EarlyReturnKeepsCounters ==
    [][ (ev' = "send" /\ ReturnsEarly)
            => (wire' = <<>> /\ UNCHANGED <<sequence, lastSendTime>>) ]_vars

\* A request came too soon after a transmitted frame: nothing was sent, the
\* counters are those of that frame.
EarlyReturnKeepsCountersWitness ==
    /\ ev = "send"
    /\ req.useWsBridge
    /\ IsOpen
    /\ now - lastSendTime < 22
    /\ wire = <<>>
    /\ sequence = 1
    /\ lastSendTime > 0

\* The contributing fixtures of the request that cover absolute address a.
Covering(a) ==
    { k \in 1..Len(req.input) : Contributes(req.input[k]) /\ a \in Addresses(req.input[k]) }

\* The value fixture k of the request has for absolute address a.
ValueAt(k, a) ==
    LET fx == req.input[k]
        off == a - ((fx.universe * 512) + (fx.startAddress - 1))
    IN  ChannelValue(fx.colorData[(off \div 4) + 1], off % 4)

\* C30: in a frame sendDmxData has sent, every absolute channel that fixtures
\* address carries the value of the last fixture of the list that addresses it,
\* also where an earlier fixture had a larger value; every channel write is at
\* an index 0..511 of a universe >= 0, and every packet is for a universe >= 0
\* with 512 channels (all fixtures have universe >= 0 and startAddress >= 1).
LaterFixtureWins ==
    (ev = "send" /\ version = 1 /\ wire # <<>>) =>
        /\ \A k \in 1..Len(req.input) :
             req.input[k].universe >= 0 /\ req.input[k].startAddress >= 1
        /\ \A j \in 1..Len(FrameWrites(req.input)) :
             LET w == FrameWrites(req.input)[j]
             IN  w[1] >= 0 /\ w[2] \in 0..511
        /\ \A j \in 1..Len(wire) :
             PacketUniverse(wire[j].data) >= 0 /\ Len(wire[j].data) = 18 + 512
        /\ \A f \in 1..Len(req.input) :
             Contributes(req.input[f]) =>
                \A a \in Addresses(req.input[f]) :
                    LET last == CHOOSE k \in Covering(a) : \A g \in Covering(a) : g <= k
                    IN  /\ \E j \in 1..Len(wire) : PacketUniverse(wire[j].data) = a \div 512
                        /\ SentChannel(a) = ValueAt(last, a)

\* Strip comes after Over and overwrites its channels 2..5, where Over had
\* the larger values.
LaterFixtureWinsWitness ==
    /\ ev = "send"
    /\ version = 1
    /\ req.input = <<Over, Strip>>
    /\ Len(wire) = 1
    /\ Covering(2) = {1, 2}
    /\ ValueAt(1, 2) > ValueAt(2, 2)
    /\ SentChannel(2) = Red.b
    /\ SentChannel(4) = Blue.r
====
